---------------------------- MODULE ProxyProofs ----------------------------
(***************************************************************************)
(* What holds of a server whatever its ports, its pool and its algorithm,  *)
(* and however its handlers nest: every packet buffer is in exactly one    *)
(* place, the registry never leads to a freed fdinfo nor to a closed       *)
(* descriptor, a reader finds no packet but one that is being sent,        *)
(* nothing waits for a link while the tunnel waits for its links, no       *)
(* writer is forgotten, and no link carries datagrams out of order.  The   *)
(* first part is about the functions of BufferPool, the second about the   *)
(* steps of Proxy, the third about what they leave in the buffers, the     *)
(* fourth about what wakes a writer up, the fifth about the order of what  *)
(* the links send.                                                         *)
(***************************************************************************)
EXTENDS Proxy, RegistryProofs, FiniteSetTheorems

-----------------------------------------------------------------------------
(* Queues of buffers.                                                      *)

LEMMA QueueIs ==
  ASSUME NEW s \in Seq(Buffers)
  PROVE  /\ DOMAIN s = 1 .. Len(s) /\ Len(s) \in Nat
         /\ \A i \in 1 .. Len(s) : s[i] \in Buffers
         /\ \A b : Holds(s, b) => b \in Buffers
<1>1. /\ DOMAIN s = 1 .. Len(s) /\ Len(s) \in Nat
      /\ \A i \in 1 .. Len(s) : s[i] \in Buffers
  OBVIOUS
<1> QED
  BY <1>1 DEF Holds

LEMMA Enqueued ==
  ASSUME NEW s \in Seq(Buffers), NEW b \in Buffers, Distinct(s), ~ Holds(s, b)
  PROVE  /\ Append(s, b) \in Seq(Buffers) /\ Distinct(Append(s, b))
         /\ \A c : Holds(Append(s, b), c) <=> Holds(s, c) \/ c = b
<1> DEFINE t == Append(s, b)
<1>1. /\ Len(s) \in Nat /\ t \in Seq(Buffers) /\ Len(t) = Len(s) + 1
      /\ t[Len(s) + 1] = b /\ \A i \in 1 .. Len(s) : t[i] = s[i]
  OBVIOUS
<1> HIDE DEF t
<1>2. Distinct(t)
  BY <1>1 DEF Distinct, Holds
<1>3. ASSUME NEW c PROVE Holds(t, c) <=> Holds(s, c) \/ c = b
  BY <1>1 DEF Holds
<1> QED
  BY <1>1, <1>2, <1>3 DEF t

LEMMA Dequeued ==
  ASSUME NEW s \in Seq(Buffers), Distinct(s), s # <<>>
  PROVE  /\ Tail(s) \in Seq(Buffers) /\ Distinct(Tail(s))
         /\ Head(s) \in Buffers /\ Holds(s, Head(s))
         /\ \A c : Holds(Tail(s), c) <=> Holds(s, c) /\ c # Head(s)
<1> DEFINE t == Tail(s)
           h == Head(s)
<1>1. /\ Len(s) \in Nat \ {0} /\ t \in Seq(Buffers) /\ Len(t) = Len(s) - 1
      /\ h = s[1] /\ \A i \in 1 .. Len(t) : t[i] = s[i + 1]
      /\ h \in Buffers
  OBVIOUS
<1> HIDE DEF t, h
<1>2. Distinct(t)
  BY <1>1 DEF Distinct
<1>3. Holds(s, h)
  BY <1>1 DEF Holds
<1>4. ASSUME NEW c, Holds(t, c) PROVE Holds(s, c) /\ c # h
  <2>1. PICK i \in 1 .. Len(t) : t[i] = c
    BY <1>4 DEF Holds
  <2>2. i + 1 \in 1 .. Len(s) /\ s[i + 1] = c /\ 1 \in 1 .. Len(s) /\ i + 1 # 1
    BY <1>1, <2>1
  <2> QED
    BY <1>1, <2>2 DEF Holds, Distinct
<1>5. ASSUME NEW c, Holds(s, c), c # h PROVE Holds(t, c)
  <2>1. PICK i \in 1 .. Len(s) : s[i] = c
    BY <1>5 DEF Holds
  <2>2. i # 1
    BY <1>1, <1>5, <2>1
  <2>3. i - 1 \in 1 .. Len(t) /\ t[i - 1] = s[(i - 1) + 1] /\ (i - 1) + 1 = i
    BY <1>1, <2>1, <2>2
  <2> QED
    BY <2>1, <2>3 DEF Holds
<1> QED
  BY <1>1, <1>2, <1>3, <1>4, <1>5 DEF t, h

-----------------------------------------------------------------------------
(* Where a buffer is: x tells for whom, or under which key.                *)
Place(p, b, k, x) ==
  \/ k = "free" /\ x = 0 /\ Holds(p.free, b)
  \/ k = "used" /\ x \in Fds /\ p.used[x] = b
  \/ k = "queue" /\ x \in Fds /\ Holds(p.writeWaiting[x], b)
  \/ k = "app" /\ <<x, b>> \in p.app
  \/ k = "orphan" /\ x = 0 /\ b \in p.orphaned

(* No table has an entry twice, and a free buffer has been zeroed. *)
Tables(p) ==
  /\ Distinct(p.free)
  /\ \A fd \in Fds : Distinct(p.writeWaiting[fd])
  /\ \A x, y \in p.app : x[1] = y[1] => x = y
  /\ \A b \in Buffers : Holds(p.free, b) => p.pkt[b] = Blank

(* Each buffer is in one place, and in one place only. *)
OnePlace(p) ==
  \A b \in Buffers :
    /\ \E k, x : Place(p, b, k, x)
    /\ \A k, x, j, y : Place(p, b, k, x) /\ Place(p, b, j, y) => j = k /\ y = x

LEMMA PoolIs ==
  ASSUME NEW p \in Pool
  PROVE  PoolInv(p) <=> Tables(p) /\ OnePlace(p)
<1>1. /\ p.free \in Seq(Buffers) /\ \A fd \in Fds : p.writeWaiting[fd] \in Seq(Buffers)
      /\ p.used \in [Fds -> Buffers \cup {NoBuffer}]
      /\ p.app \in SUBSET (Nat \X Buffers) /\ p.orphaned \in SUBSET Buffers
      /\ p.pkt \in [Buffers -> Packets \cup {Blank}]
  BY DEF Pool
<1>2. NoBuffer \notin Buffers
  BY BufferPoolAssumption DEF Buffers, NoBuffer
<1>3. \A b : b \in FreeBuffers(p) <=> Holds(p.free, b)
  BY <1>1, QueueIs DEF FreeBuffers, Holds
<1>4. \A b \in Buffers : b \in UsedBuffers(p) <=> \E x : Place(p, b, "used", x)
  BY <1>2 DEF UsedBuffers, Place
<1>5. \A fd \in Fds : ToSet(p.writeWaiting[fd]) = {b \in Buffers : Holds(p.writeWaiting[fd], b)}
  BY <1>1, QueueIs DEF ToSet, Holds
<1>6. \A b : b \in QueuedBuffers(p) <=> b \in Buffers /\ \E x : Place(p, b, "queue", x)
  BY <1>5 DEF QueuedBuffers, Place
<1>7. \A b : b \in AppBuffers(p) <=> b \in Buffers /\ \E x : Place(p, b, "app", x)
  <2>1. \A z \in p.app : z = <<z[1], z[2]>> /\ z[2] \in Buffers
    BY <1>1
  <2>2. \A x, b : <<x, b>>[2] = b
    OBVIOUS
  <2>3. ASSUME NEW b, b \in AppBuffers(p) PROVE b \in Buffers /\ \E x : Place(p, b, "app", x)
    <3>1. PICK z \in p.app : b = z[2]
      BY <2>3 DEF AppBuffers
    <3>2. Place(p, b, "app", z[1])
      BY <2>1, <3>1 DEF Place
    <3> QED
      BY <2>1, <3>1, <3>2
  <2>4. ASSUME NEW b, NEW x, Place(p, b, "app", x) PROVE b \in AppBuffers(p)
    <3>1. <<x, b>> \in p.app
      BY <2>4 DEF Place
    <3> QED
      BY <2>2, <3>1 DEF AppBuffers
  <2> QED
    BY <2>3, <2>4
<1>8. FreeAreBlank(p) <=> \A b \in Buffers : Holds(p.free, b) => p.pkt[b] = Blank
  BY <1>1, <1>3, QueueIs DEF FreeAreBlank
<1>9. \A fd \in Fds : /\ DOMAIN p.writeWaiting[fd] = 1 .. Len(p.writeWaiting[fd])
                      /\ p.used[fd] \in Buffers \cup {NoBuffer}
  BY <1>1, QueueIs
<1>10. DOMAIN p.free = 1 .. Len(p.free)
  BY <1>1, QueueIs
<1>11. \A z \in p.app : z = <<z[1], z[2]>> /\ z[2] \in Buffers
  BY <1>1
<1> DEFINE Spot(b, k, x) ==
             \/ k = "free" /\ x = 0 /\ b \in FreeBuffers(p)
             \/ k = "used" /\ x \in Fds /\ p.used[x] = b /\ b \in UsedBuffers(p)
             \/ k = "queue" /\ x \in Fds /\ Holds(p.writeWaiting[x], b) /\ b \in QueuedBuffers(p)
             \/ k = "app" /\ <<x, b>> \in p.app /\ b \in AppBuffers(p)
             \/ k = "orphan" /\ x = 0 /\ b \in p.orphaned
<1>12. ASSUME NEW b, b \in Buffers, NEW k, NEW x, Place(p, b, k, x) PROVE Spot(b, k, x)
  BY <1>3, <1>4, <1>6, <1>7, <1>12 DEF Place
<1>13. ASSUME PoolInv(p) PROVE Tables(p) /\ OnePlace(p)
  <2>1. NoDuplicates(p) /\ Disjoint(p) /\ NoneLost(p) /\ FreeAreBlank(p)
    BY <1>13 DEF PoolInv
  <2>2. Distinct(p.free)
    BY <1>10, <2>1 DEF NoDuplicates, Distinct
  <2>3. \A fd \in Fds : Distinct(p.writeWaiting[fd])
    BY <1>9, <2>1 DEF NoDuplicates, Distinct
  <2>4. \A x, y \in p.app : x[1] = y[1] \/ x[2] = y[2] => x = y
    BY <2>1 DEF NoDuplicates
  <2>5. Tables(p)
    BY <1>8, <2>1, <2>2, <2>3, <2>4 DEF Tables
  <2>6. ASSUME NEW b \in Buffers PROVE \E k, x : Place(p, b, k, x)
    <3>1. \/ b \in FreeBuffers(p) \/ b \in UsedBuffers(p) \/ b \in QueuedBuffers(p)
          \/ b \in AppBuffers(p) \/ b \in p.orphaned
      BY <2>1 DEF NoneLost
    <3>2. ASSUME b \in FreeBuffers(p) PROVE Place(p, b, "free", 0)
      BY <1>3, <3>2 DEF Place
    <3>3. ASSUME b \in p.orphaned PROVE Place(p, b, "orphan", 0)
      BY <3>3 DEF Place
    <3> QED
      BY <1>4, <1>6, <1>7, <3>1, <3>2, <3>3
  <2>7. ASSUME NEW b \in Buffers, NEW k, NEW x, NEW j, NEW y,
               Place(p, b, k, x), Place(p, b, j, y)
        PROVE  j = k /\ y = x
    <3>1. /\ ~ (b \in FreeBuffers(p) /\ b \in UsedBuffers(p))
          /\ ~ (b \in FreeBuffers(p) /\ b \in QueuedBuffers(p))
          /\ ~ (b \in FreeBuffers(p) /\ b \in p.orphaned)
          /\ ~ (b \in UsedBuffers(p) /\ b \in QueuedBuffers(p))
          /\ ~ (b \in UsedBuffers(p) /\ b \in p.orphaned)
          /\ ~ (b \in QueuedBuffers(p) /\ b \in p.orphaned)
          /\ ~ (b \in AppBuffers(p) /\ b \in FreeBuffers(p))
          /\ ~ (b \in AppBuffers(p) /\ b \in UsedBuffers(p))
          /\ ~ (b \in AppBuffers(p) /\ b \in QueuedBuffers(p))
          /\ ~ (b \in AppBuffers(p) /\ b \in p.orphaned)
      BY <2>1 DEF Disjoint
    <3>0. Spot(b, k, x) /\ Spot(b, j, y)
      BY <1>12, <2>7
    <3>2. k = j
      BY <3>0, <3>1
    <3>3. CASE k = "used"
      <4>1. x \in Fds /\ y \in Fds /\ p.used[x] = p.used[y] /\ p.used[x] # NoBuffer
        BY <1>2, <3>0, <3>2, <3>3
      <4> QED
        BY <2>1, <3>2, <4>1 DEF NoDuplicates
    <3>4. CASE k = "queue"
      <4>1. /\ x \in Fds /\ y \in Fds
            /\ Holds(p.writeWaiting[x], b) /\ Holds(p.writeWaiting[y], b)
        BY <3>0, <3>2, <3>4
      <4>2. PICK m \in 1 .. Len(p.writeWaiting[x]), n \in 1 .. Len(p.writeWaiting[y]) :
              p.writeWaiting[x][m] = b /\ p.writeWaiting[y][n] = b
        BY <4>1 DEF Holds
      <4> QED
        BY <1>9, <2>1, <3>2, <4>1, <4>2 DEF NoDuplicates
    <3>5. CASE k = "app"
      <4>1. <<x, b>> \in p.app /\ <<y, b>> \in p.app
        BY <3>0, <3>2, <3>5
      <4>2. <<x, b>>[2] = <<y, b>>[2]
        OBVIOUS
      <4>3. <<x, b>> = <<y, b>>
        BY <2>4, <4>1, <4>2
      <4> QED
        BY <3>2, <4>3
    <3>6. CASE k = "free" \/ k = "orphan"
      BY <3>0, <3>2, <3>6
    <3> QED
      BY <3>0, <3>3, <3>4, <3>5, <3>6
  <2> QED
    BY <2>5, <2>6, <2>7 DEF OnePlace
<1>14. ASSUME Tables(p), OnePlace(p) PROVE PoolInv(p)
  <2>1. ASSUME NEW b \in Buffers, NEW k, NEW x, NEW j, NEW y,
               Place(p, b, k, x), Place(p, b, j, y)
        PROVE  j = k /\ y = x
    BY <1>14, <2>1 DEF OnePlace
  <2>2. ASSUME NEW f \in Fds, NEW g \in Fds, p.used[f] = p.used[g], p.used[f] # NoBuffer
        PROVE  f = g
    <3>1. p.used[f] \in Buffers
      BY <1>9, <2>2
    <3>2. Place(p, p.used[f], "used", f) /\ Place(p, p.used[f], "used", g)
      BY <2>2 DEF Place
    <3> QED
      BY <2>1, <3>1, <3>2
  <2>3. ASSUME NEW f \in Fds, NEW g \in Fds,
               NEW i \in DOMAIN p.writeWaiting[f], NEW j \in DOMAIN p.writeWaiting[g],
               p.writeWaiting[f][i] = p.writeWaiting[g][j]
        PROVE  f = g /\ i = j
    <3> DEFINE b == p.writeWaiting[f][i]
    <3>1. Holds(p.writeWaiting[f], b) /\ Holds(p.writeWaiting[g], b)
      BY <1>9, <2>3 DEF Holds
    <3>2. b \in Buffers
      BY <1>1, <3>1, QueueIs
    <3>3. Place(p, b, "queue", f) /\ Place(p, b, "queue", g)
      BY <3>1 DEF Place
    <3>4. f = g
      BY <2>1, <3>2, <3>3
    <3> QED
      BY <1>9, <1>14, <2>3, <3>4 DEF Tables, Distinct
  <2>4. ASSUME NEW v \in p.app, NEW w \in p.app, v[1] = w[1] \/ v[2] = w[2]
        PROVE  v = w
    <3>1. CASE v[1] = w[1]
      BY <1>14, <3>1 DEF Tables
    <3>2. CASE v[2] = w[2]
      <4>1. Place(p, v[2], "app", v[1]) /\ Place(p, v[2], "app", w[1])
        BY <1>11, <3>2 DEF Place
      <4>2. v[1] = w[1]
        BY <1>11, <2>1, <4>1
      <4> QED
        BY <3>1, <4>2
    <3> QED
      BY <2>4, <3>1, <3>2
  <2>5. NoDuplicates(p)
    <3>1. \A i, j \in DOMAIN p.free : p.free[i] = p.free[j] => i = j
      BY <1>10, <1>14 DEF Tables, Distinct
    <3> QED
      BY <2>2, <2>3, <2>4, <3>1, Zenon DEF NoDuplicates
  <2>6. ASSUME NEW b \in Buffers
        PROVE  /\ b \in FreeBuffers(p) => Place(p, b, "free", 0)
               /\ b \in p.orphaned => Place(p, b, "orphan", 0)
    BY <1>3 DEF Place
  <2>7. /\ FreeBuffers(p) \subseteq Buffers /\ UsedBuffers(p) \subseteq Buffers
        /\ QueuedBuffers(p) \subseteq Buffers /\ AppBuffers(p) \subseteq Buffers
    <3>1. FreeBuffers(p) \subseteq Buffers
      BY <1>1, <1>3, QueueIs
    <3>2. UsedBuffers(p) \subseteq Buffers
      BY <1>9 DEF UsedBuffers
    <3> QED
      BY <1>6, <1>7, <3>1, <3>2
  <2>8. ASSUME NEW b \in Buffers
        PROVE  /\ b \in FreeBuffers(p) =>
                    b \notin UsedBuffers(p) /\ b \notin QueuedBuffers(p) /\ b \notin p.orphaned
               /\ b \in UsedBuffers(p) => b \notin QueuedBuffers(p) /\ b \notin p.orphaned
               /\ b \in QueuedBuffers(p) => b \notin p.orphaned
               /\ b \in AppBuffers(p) =>
                    /\ b \notin FreeBuffers(p) /\ b \notin UsedBuffers(p)
                    /\ b \notin QueuedBuffers(p) /\ b \notin p.orphaned
    <3>1. /\ "free" # "used" /\ "free" # "queue" /\ "free" # "orphan" /\ "free" # "app"
          /\ "used" # "queue" /\ "used" # "orphan" /\ "used" # "app"
          /\ "queue" # "orphan" /\ "queue" # "app" /\ "orphan" # "app"
      OBVIOUS
    <3>2. \A k, x, j, y : Place(p, b, k, x) /\ Place(p, b, j, y) => j = k
      BY <2>1
    <3> QED
      BY <1>4, <1>6, <1>7, <2>6, <3>1, <3>2
  <2>9. Disjoint(p)
    BY <2>7, <2>8 DEF Disjoint
  <2>10. NoneLost(p)
    <3> SUFFICES ASSUME NEW b \in Buffers
                 PROVE  \/ b \in FreeBuffers(p) \/ b \in UsedBuffers(p)
                        \/ b \in QueuedBuffers(p) \/ b \in AppBuffers(p) \/ b \in p.orphaned
      BY DEF NoneLost
    <3>1. PICK k, x : Place(p, b, k, x)
      BY <1>14 DEF OnePlace
    <3> QED
      BY <1>12, <3>1
  <2>11. FreeAreBlank(p)
    BY <1>8, <1>14 DEF Tables
  <2> QED
    BY <2>5, <2>9, <2>10, <2>11 DEF PoolInv
<1> QED
  BY <1>13, <1>14

(* All of M is there and nowhere else, and what is not in M where it was. *)
AllAt(q, M, k, x) == \A b \in M : \A j, y : Place(q, b, j, y) <=> j = k /\ y = x
Stay(p, q, M) ==
  \A b \in Buffers \ M : \A k, x : Place(q, b, k, x) <=> Place(p, b, k, x)

LEMMA Moved ==
  ASSUME NEW p \in Pool, NEW q \in Pool, PoolInv(p), Tables(q),
         NEW M \in SUBSET Buffers, NEW K, NEW X, AllAt(q, M, K, X), Stay(p, q, M)
  PROVE  PoolInv(q)
<1>1. OnePlace(p)
  BY PoolIs
<1>2. ASSUME NEW b \in M
      PROVE  /\ \E k, x : Place(q, b, k, x)
             /\ \A k, x, j, y : Place(q, b, k, x) /\ Place(q, b, j, y) => j = k /\ y = x
  <2>1. \A k, x : Place(q, b, k, x) <=> k = K /\ x = X
    BY DEF AllAt
  <2> QED
    BY <2>1
<1>3. ASSUME NEW b \in Buffers \ M
      PROVE  /\ \E k, x : Place(q, b, k, x)
             /\ \A k, x, j, y : Place(q, b, k, x) /\ Place(q, b, j, y) => j = k /\ y = x
  BY <1>1 DEF OnePlace, Stay
<1>4. OnePlace(q)
  BY <1>2, <1>3 DEF OnePlace
<1> QED
  BY <1>4, PoolIs

(* A pool that is sound, and what is known of its fields. *)
Sound(p) == p \in Pool /\ PoolInv(p)

LEMMA SoundAgain ==
  ASSUME NEW p, Sound(p), NEW q, q \in Pool, Tables(q), NEW M, M \subseteq Buffers,
         NEW K, NEW X, AllAt(q, M, K, X), Stay(p, q, M)
  PROVE  Sound(q)
  BY Moved DEF Sound

LEMMA SoundIs ==
  ASSUME NEW p, Sound(p)
  PROVE  /\ p \in Pool /\ Tables(p) /\ OnePlace(p)
         /\ p.free \in Seq(Buffers) /\ Distinct(p.free)
         /\ p.used \in [Fds -> Buffers \cup {NoBuffer}]
         /\ p.writeWaiting \in [Fds -> Seq(Buffers)]
         /\ \A fd \in Fds : Distinct(p.writeWaiting[fd])
         /\ p.readWaiting \in Seq(Fds \cup {Stale})
         /\ p.app \in SUBSET (Nat \X Buffers) /\ p.orphaned \in SUBSET Buffers
         /\ p.pkt \in [Buffers -> Packets \cup {Blank}]
         /\ NoBuffer \notin Buffers
         /\ p = [free |-> p.free, used |-> p.used, writeWaiting |-> p.writeWaiting,
                 readWaiting |-> p.readWaiting, app |-> p.app, orphaned |-> p.orphaned,
                 pkt |-> p.pkt]
<1>1. p \in Pool /\ Tables(p) /\ OnePlace(p)
  BY PoolIs DEF Sound
<1>2. Distinct(p.free) /\ \A fd \in Fds : Distinct(p.writeWaiting[fd])
  BY <1>1 DEF Tables
<1>3. NoBuffer \notin Buffers
  BY BufferPoolAssumption DEF Buffers, NoBuffer
<1> QED
  BY <1>1, <1>2, <1>3 DEF Pool

(* Where a buffer is found, no other place has it. *)
LEMMA OnlyThere ==
  ASSUME NEW p, Sound(p), NEW b \in Buffers, NEW k, NEW x, Place(p, b, k, x)
  PROVE  /\ Holds(p.free, b) => k = "free" /\ x = 0
         /\ \A fd \in Fds : p.used[fd] = b => k = "used" /\ x = fd
         /\ \A fd \in Fds : Holds(p.writeWaiting[fd], b) => k = "queue" /\ x = fd
         /\ \A y : <<y, b>> \in p.app => k = "app" /\ x = y
         /\ b \in p.orphaned => k = "orphan" /\ x = 0
<1>1. \A j, y : Place(p, b, j, y) => j = k /\ y = x
  BY SoundIs DEF OnePlace
<1>2. Holds(p.free, b) => k = "free" /\ x = 0
  BY <1>1 DEF Place
<1>3. ASSUME NEW fd \in Fds, p.used[fd] = b PROVE k = "used" /\ x = fd
  BY <1>1, <1>3 DEF Place
<1>4. ASSUME NEW fd \in Fds, Holds(p.writeWaiting[fd], b) PROVE k = "queue" /\ x = fd
  BY <1>1, <1>4 DEF Place
<1>5. ASSUME NEW y, <<y, b>> \in p.app PROVE k = "app" /\ x = y
  BY <1>1, <1>5 DEF Place
<1>6. b \in p.orphaned => k = "orphan" /\ x = 0
  BY <1>1 DEF Place
<1> QED
  BY <1>2, <1>3, <1>4, <1>5, <1>6

(* The oldest free buffer. *)
LEMMA HeadFree ==
  ASSUME NEW p, Sound(p), p.free # <<>>
  PROVE  /\ Head(p.free) \in Buffers /\ Tail(p.free) \in Seq(Buffers) /\ Distinct(Tail(p.free))
         /\ \A c : Holds(Tail(p.free), c) <=> Holds(p.free, c) /\ c # Head(p.free)
         /\ Place(p, Head(p.free), "free", 0)
         /\ p.pkt[Head(p.free)] = Blank
<1>1. p.free \in Seq(Buffers) /\ Distinct(p.free) /\ Tables(p)
  BY SoundIs
<1>2. /\ Head(p.free) \in Buffers /\ Tail(p.free) \in Seq(Buffers) /\ Distinct(Tail(p.free))
      /\ Holds(p.free, Head(p.free))
      /\ \A c : Holds(Tail(p.free), c) <=> Holds(p.free, c) /\ c # Head(p.free)
  BY <1>1, Dequeued
<1> QED
  BY <1>1, <1>2 DEF Place, Tables

-----------------------------------------------------------------------------
(* What the operations do.                                                 *)

LEMMA InitSound == Sound(InitPool)
<1> DEFINE p == InitPool
<1>1. PoolSize \in Nat
  BY BufferPoolAssumption
<1>2. p.free \in Seq(Buffers) /\ Len(p.free) = PoolSize /\ \A i \in 1 .. PoolSize : p.free[i] = i
  BY <1>1 DEF InitPool, Buffers
<1>3. p \in Pool
  BY <1>2 DEF InitPool, Pool
<1>4. \A b : Holds(p.free, b) <=> b \in Buffers
  BY <1>1, <1>2 DEF Holds, Buffers
<1>5. NoBuffer \notin Buffers
  BY <1>1 DEF Buffers, NoBuffer
<1>6. \A fd \in Fds : p.used[fd] = NoBuffer /\ p.writeWaiting[fd] = <<>>
  BY DEF InitPool
<1>7. p.app = {} /\ p.orphaned = {} /\ \A b \in Buffers : p.pkt[b] = Blank
  BY DEF InitPool
<1>8. \A b : ~ Holds(<<>>, b)
  BY DEF Holds
<1> HIDE DEF p
<1>9. Tables(p)
  <2>1. Distinct(p.free)
    BY <1>2 DEF Distinct
  <2>2. Distinct(<<>>)
    BY DEF Distinct
  <2> QED
    BY <1>6, <1>7, <2>1, <2>2 DEF Tables
<1>10. \A b \in Buffers : \A k, x : Place(p, b, k, x) <=> k = "free" /\ x = 0
  BY <1>4, <1>5, <1>6, <1>7, <1>8 DEF Place
<1>11. OnePlace(p)
  BY <1>10 DEF OnePlace
<1> QED
  BY <1>3, <1>9, <1>11, PoolIs DEF Sound, p

LEMMA GetRead ==
  ASSUME NEW p, Sound(p), NEW fd \in Fds
  PROVE  Sound(get_read_buffer(p, fd))
<1> DEFINE q == get_read_buffer(p, fd)
           b == Head(p.free)
<1> p \in Pool
  BY SoundIs
<1>1. CASE p.used[fd] # NoBuffer
  BY <1>1 DEF get_read_buffer
<1>2. CASE p.used[fd] = NoBuffer /\ p.free = <<>>
  <2>1. q = [p EXCEPT !.readWaiting = Append(p.readWaiting, fd)]
    BY <1>2 DEF get_read_buffer
  <2> HIDE DEF q
  <2>2. /\ q.free = p.free /\ q.used = p.used /\ q.writeWaiting = p.writeWaiting
        /\ q.app = p.app /\ q.orphaned = p.orphaned /\ q.pkt = p.pkt
    BY <2>1 DEF Pool
  <2>3. q \in Pool
    <3>1. Append(p.readWaiting, fd) \in Seq(Fds \cup {Stale})
      BY DEF Pool
    <3> QED
      BY <2>1, <3>1 DEF Pool
  <2>4. Tables(q)
    BY <2>2, SoundIs DEF Tables
  <2>5. AllAt(q, {}, "free", 0)
    BY DEF AllAt
  <2>6. Stay(p, q, {})
    BY <2>2 DEF Place, Stay
  <2> QED
    BY <2>3, <2>4, <2>5, <2>6, SoundAgain DEF q
<1>3. CASE p.used[fd] = NoBuffer /\ p.free # <<>>
  <2>1. q = [p EXCEPT !.used[fd] = b, !.free = Tail(p.free)]
    BY <1>3 DEF get_read_buffer
  <2>2. /\ b \in Buffers /\ Tail(p.free) \in Seq(Buffers) /\ Distinct(Tail(p.free))
        /\ \A c : Holds(Tail(p.free), c) <=> Holds(p.free, c) /\ c # b
        /\ Place(p, b, "free", 0)
    BY <1>3, HeadFree
  <2> HIDE DEF q, b
  <2>3. /\ q.free = Tail(p.free) /\ q.used = [p.used EXCEPT ![fd] = b]
        /\ q.writeWaiting = p.writeWaiting
        /\ q.app = p.app /\ q.orphaned = p.orphaned /\ q.pkt = p.pkt
    BY <2>1 DEF Pool
  <2>4. q \in Pool
    BY <2>1, <2>2 DEF Pool
  <2>5. /\ q.used[fd] = b
        /\ \A g \in Fds \ {fd} : q.used[g] = p.used[g]
    BY <2>3, SoundIs
  <2>6. Tables(q)
    BY <2>2, <2>3, SoundIs DEF Tables
  <2>7. /\ \A g \in Fds : p.used[g] # b /\ ~ Holds(p.writeWaiting[g], b)
        /\ (\A y : <<y, b>> \notin p.app) /\ b \notin p.orphaned
    BY <2>2, OnlyThere
  <2>8. AllAt(q, {b}, "used", fd)
    BY <2>2, <2>3, <2>5, <2>7 DEF Place, AllAt
  <2>9. Stay(p, q, {b})
    BY <1>3, <2>2, <2>3, <2>5, SoundIs DEF Place, Stay
  <2> QED
    BY <2>2, <2>4, <2>6, <2>8, <2>9, SoundAgain DEF q
<1> QED
  BY <1>1, <1>2, <1>3

LEMMA GetWrite ==
  ASSUME NEW p, Sound(p), NEW fd \in Fds
  PROVE  Sound(get_write_buffer(p, fd))
<1> DEFINE q == get_write_buffer(p, fd)
           s == p.writeWaiting[fd]
           b == Head(s)
<1> p \in Pool
  BY SoundIs
<1>1. CASE p.used[fd] # NoBuffer \/ s = <<>>
  BY <1>1 DEF get_write_buffer
<1>2. CASE p.used[fd] = NoBuffer /\ s # <<>>
  <2>1. q = [p EXCEPT !.used[fd] = b, !.writeWaiting[fd] = Tail(s)]
    BY <1>2 DEF get_write_buffer
  <2>2. s \in Seq(Buffers) /\ Distinct(s)
    BY SoundIs
  <2>3. /\ b \in Buffers /\ Tail(s) \in Seq(Buffers) /\ Distinct(Tail(s))
        /\ \A c : Holds(Tail(s), c) <=> Holds(s, c) /\ c # b
        /\ Holds(s, b)
    BY <1>2, <2>2, Dequeued
  <2>4. Place(p, b, "queue", fd)
    BY <2>3 DEF Place
  <2>5. /\ q.used = [p.used EXCEPT ![fd] = b]
        /\ q.writeWaiting = [p.writeWaiting EXCEPT ![fd] = Tail(s)]
        /\ q.free = p.free
        /\ q.app = p.app /\ q.orphaned = p.orphaned /\ q.pkt = p.pkt
    BY <2>1 DEF Pool
  <2> HIDE DEF b
  <2>6. q \in Pool
    <3> DEFINE t == Tail(s)
    <3>1. t \in Seq(Buffers) /\ q = [p EXCEPT !.used[fd] = b, !.writeWaiting[fd] = t]
      BY <2>1, <2>3
    <3> HIDE DEF t, q
    <3> QED
      BY <2>3, <3>1 DEF Pool
  <2> HIDE DEF q
  <2>7. /\ q.used[fd] = b /\ \A g \in Fds \ {fd} : q.used[g] = p.used[g]
        /\ q.writeWaiting[fd] = Tail(s)
        /\ \A g \in Fds \ {fd} : q.writeWaiting[g] = p.writeWaiting[g]
    BY <2>5, SoundIs
  <2>8. Tables(q)
    BY <2>3, <2>5, <2>7, SoundIs DEF Tables
  <2>9. /\ \A g \in Fds : p.used[g] # b /\ (Holds(p.writeWaiting[g], b) => g = fd)
        /\ (\A y : <<y, b>> \notin p.app) /\ b \notin p.orphaned /\ ~ Holds(p.free, b)
    BY <2>3, <2>4, OnlyThere
  <2>10. AllAt(q, {b}, "used", fd)
    BY <2>3, <2>5, <2>7, <2>9 DEF Place, AllAt
  <2>11. Stay(p, q, {b})
    BY <1>2, <2>3, <2>5, <2>7, SoundIs DEF Place, Stay
  <2> QED
    BY <2>3, <2>6, <2>8, <2>10, <2>11, SoundAgain DEF q
<1> QED
  BY <1>1, <1>2

LEMMA ReadToWrite ==
  ASSUME NEW p, Sound(p), NEW from \in Fds, NEW to \in Fds, p.used[from] # NoBuffer
  PROVE  Sound(mv_buffer_rtow(p, from, to))
<1> DEFINE q == mv_buffer_rtow(p, from, to)
           b == p.used[from]
           s == p.writeWaiting[to]
           t == Append(s, b)
<1> p \in Pool
  BY SoundIs
<1>1. b \in Buffers /\ Place(p, b, "used", from)
  BY SoundIs DEF Place
<1>2. s \in Seq(Buffers) /\ Distinct(s) /\ ~ Holds(s, b)
  BY <1>1, SoundIs, OnlyThere
<1>3. t \in Seq(Buffers) /\ Distinct(t) /\ \A c : Holds(t, c) <=> Holds(s, c) \/ c = b
  BY <1>1, <1>2, Enqueued
<1>4. q = [p EXCEPT !.used[from] = NoBuffer, !.writeWaiting[to] = t]
  BY DEF mv_buffer_rtow
<1>5. /\ \A g \in Fds : p.used[g] = b => g = from
      /\ \A g \in Fds : ~ Holds(p.writeWaiting[g], b)
      /\ (\A y : <<y, b>> \notin p.app) /\ b \notin p.orphaned /\ ~ Holds(p.free, b)
  BY <1>1, OnlyThere
<1> HIDE DEF t, b, q
<1>6. q \in Pool
  BY <1>3, <1>4 DEF Pool
<1>7. /\ q.used[from] = NoBuffer /\ \A g \in Fds \ {from} : q.used[g] = p.used[g]
      /\ q.writeWaiting[to] = t
      /\ \A g \in Fds \ {to} : q.writeWaiting[g] = p.writeWaiting[g]
      /\ q.free = p.free /\ q.app = p.app /\ q.orphaned = p.orphaned /\ q.pkt = p.pkt
  BY <1>4 DEF Pool
<1>8. Tables(p) /\ NoBuffer \notin Buffers
  BY SoundIs
<1>9. Tables(q)
  <2>1. \A fd \in Fds : Distinct(q.writeWaiting[fd])
    BY <1>3, <1>7, <1>8 DEF Tables
  <2> QED
    BY <1>7, <1>8, <2>1 DEF Tables
<1>10. AllAt(q, {b}, "queue", to)
  BY <1>1, <1>3, <1>5, <1>7, <1>8 DEF Place, AllAt
<1>11. Stay(p, q, {b})
  <2> SUFFICES ASSUME NEW c \in Buffers, c # b, NEW k, NEW x
               PROVE  Place(q, c, k, x) <=> Place(p, c, k, x)
    BY DEF Stay
  <2>1. \A fd \in Fds : Holds(q.writeWaiting[fd], c) <=> Holds(p.writeWaiting[fd], c)
    BY <1>3, <1>7
  <2>2. p.used[from] # c
    BY DEF b
  <2>3. \A fd \in Fds : q.used[fd] = c <=> p.used[fd] = c
    BY <1>7, <1>8, <2>2
  <2> QED
    BY <1>7, <2>1, <2>3 DEF Place
<1> QED
  BY <1>1, <1>6, <1>9, <1>10, <1>11, SoundAgain DEF q

LEMMA ReadToFree ==
  ASSUME NEW p, Sound(p), NEW fd \in Fds
  PROVE  Sound(mv_buffer_rtof(p, fd))
<1> DEFINE q == mv_buffer_rtof(p, fd)
           b == p.used[fd]
           t == Append(p.free, b)
<1> p \in Pool
  BY SoundIs
<1>1. CASE b = NoBuffer
  BY <1>1 DEF mv_buffer_rtof
<1>2. CASE b # NoBuffer
  <2>1. b \in Buffers /\ Place(p, b, "used", fd)
    BY <1>2, SoundIs DEF Place
  <2>2. p.free \in Seq(Buffers) /\ Distinct(p.free) /\ ~ Holds(p.free, b)
    BY <2>1, SoundIs, OnlyThere
  <2>3. t \in Seq(Buffers) /\ Distinct(t) /\ \A c : Holds(t, c) <=> Holds(p.free, c) \/ c = b
    BY <2>1, <2>2, Enqueued
  <2>4. q = [p EXCEPT !.used[fd] = NoBuffer, !.free = t, !.pkt[b] = Blank]
    <3>1. q = push_to_free([p EXCEPT !.used[fd] = NoBuffer], b)
      BY <1>2 DEF mv_buffer_rtof
    <3> QED
      BY <3>1 DEF push_to_free, Pool
  <2>5. /\ \A g \in Fds : p.used[g] = b => g = fd
        /\ \A g \in Fds : ~ Holds(p.writeWaiting[g], b)
        /\ (\A y : <<y, b>> \notin p.app) /\ b \notin p.orphaned
    BY <2>1, OnlyThere
  <2> HIDE DEF t, b, q
  <2>6. q \in Pool
    BY <2>1, <2>3, <2>4 DEF Pool
  <2>7. /\ q.used[fd] = NoBuffer /\ \A g \in Fds \ {fd} : q.used[g] = p.used[g]
        /\ q.writeWaiting = p.writeWaiting
        /\ q.free = t /\ q.app = p.app /\ q.orphaned = p.orphaned
        /\ q.pkt[b] = Blank /\ \A c \in Buffers \ {b} : q.pkt[c] = p.pkt[c]
    BY <2>1, <2>4 DEF Pool
  <2>8. Tables(p) /\ NoBuffer \notin Buffers
    BY SoundIs
  <2>9. Tables(q)
    <3>1. \A c \in Buffers : Holds(q.free, c) => q.pkt[c] = Blank
      BY <2>3, <2>7, <2>8 DEF Tables
    <3> QED
      BY <2>3, <2>7, <2>8, <3>1 DEF Tables
  <2>10. AllAt(q, {b}, "free", 0)
    BY <2>1, <2>3, <2>5, <2>7, <2>8 DEF Place, AllAt
  <2>11. Stay(p, q, {b})
    <3> SUFFICES ASSUME NEW c \in Buffers, c # b, NEW k, NEW x
                 PROVE  Place(q, c, k, x) <=> Place(p, c, k, x)
      BY DEF Stay
    <3>1. p.used[fd] # c
      BY DEF b
    <3>2. \A g \in Fds : q.used[g] = c <=> p.used[g] = c
      BY <2>7, <2>8, <3>1
    <3>3. Holds(q.free, c) <=> Holds(p.free, c)
      BY <2>3, <2>7
    <3> QED
      BY <2>7, <3>2, <3>3 DEF Place
  <2> QED
    BY <2>1, <2>6, <2>9, <2>10, <2>11, SoundAgain DEF q
<1> QED
  BY <1>1, <1>2

LEMMA WriteToFree ==
  ASSUME NEW p, Sound(p), NEW fd \in Fds
  PROVE  Sound(mv_buffer_wtof(p, fd))
  BY ReadToFree DEF mv_buffer_wtof

LEMMA DupToWrite ==
  ASSUME NEW p, Sound(p), NEW c \in Buffers, NEW to \in Fds, p.free # <<>>
  PROVE  Sound(dup_buffer_tow(p, c, to))
<1> DEFINE q == dup_buffer_tow(p, c, to)
           b == Head(p.free)
           f == Tail(p.free)
           s == p.writeWaiting[to]
           t == Append(s, b)
           k == p.pkt[c]
<1> p \in Pool
  BY SoundIs
<1>1. /\ b \in Buffers /\ f \in Seq(Buffers) /\ Distinct(f)
      /\ \A d : Holds(f, d) <=> Holds(p.free, d) /\ d # b
      /\ Place(p, b, "free", 0)
  BY HeadFree
<1>2. s \in Seq(Buffers) /\ Distinct(s) /\ ~ Holds(s, b)
  BY <1>1, SoundIs, OnlyThere
<1>3. t \in Seq(Buffers) /\ Distinct(t) /\ \A d : Holds(t, d) <=> Holds(s, d) \/ d = b
  BY <1>1, <1>2, Enqueued
<1>4. q = [p EXCEPT !.free = f, !.writeWaiting[to] = t, !.pkt[b] = k]
  BY DEF dup_buffer_tow, inject_buffer_tow, Pool
<1>5. /\ \A g \in Fds : p.used[g] # b /\ ~ Holds(p.writeWaiting[g], b)
      /\ (\A y : <<y, b>> \notin p.app) /\ b \notin p.orphaned
  BY <1>1, OnlyThere
<1>6. k \in Packets \cup {Blank}
  BY SoundIs
<1> HIDE DEF t, b, q, f, k
<1>7. q \in Pool
  BY <1>1, <1>3, <1>4, <1>6 DEF Pool
<1>8. /\ q.writeWaiting[to] = t
      /\ \A g \in Fds \ {to} : q.writeWaiting[g] = p.writeWaiting[g]
      /\ q.free = f /\ q.used = p.used /\ q.app = p.app /\ q.orphaned = p.orphaned
      /\ \A d \in Buffers \ {b} : q.pkt[d] = p.pkt[d]
  BY <1>4 DEF Pool
<1>9. Tables(q)
  BY <1>1, <1>3, <1>8, SoundIs DEF Tables
<1>10. AllAt(q, {b}, "queue", to)
  BY <1>1, <1>3, <1>5, <1>8 DEF Place, AllAt
<1>11. Stay(p, q, {b})
  BY <1>1, <1>3, <1>8 DEF Place, Stay
<1> QED
  BY <1>1, <1>7, <1>9, <1>10, <1>11, SoundAgain DEF q

LEMMA DupToApp ==
  ASSUME NEW p, Sound(p), NEW c \in Buffers, NEW key \in Nat, p.free # <<>>, ~ HasApp(p, key)
  PROVE  Sound(dup_buffer_toa(p, c, key))
<1> DEFINE q == dup_buffer_toa(p, c, key)
           b == Head(p.free)
           f == Tail(p.free)
           k == p.pkt[c]
<1> p \in Pool
  BY SoundIs
<1>1. /\ b \in Buffers /\ f \in Seq(Buffers) /\ Distinct(f)
      /\ \A d : Holds(f, d) <=> Holds(p.free, d) /\ d # b
      /\ Place(p, b, "free", 0)
  BY HeadFree
<1>2. q = [p EXCEPT !.free = f, !.app = p.app \cup {<<key, b>>}, !.pkt[b] = k]
  BY DEF dup_buffer_toa
<1>3. /\ \A g \in Fds : p.used[g] # b /\ ~ Holds(p.writeWaiting[g], b)
      /\ (\A y : <<y, b>> \notin p.app) /\ b \notin p.orphaned
  BY <1>1, OnlyThere
<1>4. k \in Packets \cup {Blank}
  BY SoundIs
<1> HIDE DEF b, q, f, k
<1>5. <<key, b>> \in Nat \X Buffers
  BY <1>1
<1>6. q \in Pool
  BY <1>1, <1>2, <1>4, <1>5 DEF Pool
<1>7. /\ q.app = p.app \cup {<<key, b>>}
      /\ q.free = f /\ q.used = p.used /\ q.writeWaiting = p.writeWaiting
      /\ q.orphaned = p.orphaned
      /\ \A d \in Buffers \ {b} : q.pkt[d] = p.pkt[d]
  BY <1>2 DEF Pool
<1>8. \A x, y \in q.app : x[1] = y[1] => x = y
  <2>1. <<key, b>>[1] = key
    OBVIOUS
  <2>2. \A x \in p.app : x[1] # key
    BY DEF HasApp
  <2>3. \A x, y \in p.app : x[1] = y[1] => x = y
    BY SoundIs DEF Tables
  <2> QED
    BY <1>7, <2>1, <2>2, <2>3
<1>9. Tables(q)
  BY <1>1, <1>7, <1>8, SoundIs DEF Tables
<1>10. \A y, d : <<y, d>> \in q.app <=> (<<y, d>> \in p.app \/ (y = key /\ d = b))
  BY <1>7
<1>11. AllAt(q, {b}, "app", key)
  BY <1>1, <1>3, <1>7, <1>10 DEF Place, AllAt
<1>12. Stay(p, q, {b})
  BY <1>1, <1>7, <1>10 DEF Place, Stay
<1> QED
  BY <1>1, <1>6, <1>9, <1>11, <1>12, SoundAgain DEF q

LEMMA AppToFree ==
  ASSUME NEW p, Sound(p), NEW key, HasApp(p, key)
  PROVE  Sound(mv_buffer_atof(p, key))
<1> DEFINE q == mv_buffer_atof(p, key)
           b == CHOOSE c \in Buffers : <<key, c>> \in p.app
           t == Append(p.free, b)
<1> p \in Pool
  BY SoundIs
<1>1. b \in Buffers /\ <<key, b>> \in p.app
  <2>1. PICK x \in p.app : x[1] = key
    BY DEF HasApp
  <2>2. x = <<key, x[2]>> /\ x[2] \in Buffers
    BY <2>1, SoundIs
  <2> QED
    BY <2>1, <2>2
<1>2. Place(p, b, "app", key)
  BY <1>1 DEF Place
<1>3. p.free \in Seq(Buffers) /\ Distinct(p.free) /\ ~ Holds(p.free, b)
  BY <1>1, <1>2, SoundIs, OnlyThere
<1>4. t \in Seq(Buffers) /\ Distinct(t) /\ \A c : Holds(t, c) <=> Holds(p.free, c) \/ c = b
  BY <1>1, <1>3, Enqueued
<1>5. q = [p EXCEPT !.app = p.app \ {<<key, b>>}, !.free = t, !.pkt[b] = Blank]
  BY DEF mv_buffer_atof, push_to_free, Pool
<1>6. /\ \A g \in Fds : p.used[g] # b /\ ~ Holds(p.writeWaiting[g], b)
      /\ (\A y : <<y, b>> \in p.app => y = key) /\ b \notin p.orphaned
  <2> HIDE DEF b
  <2> QED
    BY <1>1, <1>2, OnlyThere
<1> HIDE DEF t, b, q
<1>7. q \in Pool
  BY <1>1, <1>4, <1>5 DEF Pool
<1>8. /\ q.app = p.app \ {<<key, b>>}
      /\ q.free = t /\ q.used = p.used /\ q.writeWaiting = p.writeWaiting
      /\ q.orphaned = p.orphaned
      /\ q.pkt[b] = Blank /\ \A d \in Buffers \ {b} : q.pkt[d] = p.pkt[d]
  BY <1>1, <1>5 DEF Pool
<1>9. Tables(q)
  BY <1>4, <1>8, SoundIs DEF Tables
<1>10. \A y, d : <<y, d>> \in q.app <=> <<y, d>> \in p.app /\ ~ (y = key /\ d = b)
  BY <1>8
<1>11. AllAt(q, {b}, "free", 0)
  BY <1>4, <1>6, <1>8, <1>10 DEF Place, AllAt
<1>12. Stay(p, q, {b})
  BY <1>4, <1>8, <1>10 DEF Place, Stay
<1> QED
  BY <1>1, <1>7, <1>9, <1>11, <1>12, SoundAgain DEF q

(* What changes neither tables nor free buffers. *)
LEMMA SoundStill ==
  ASSUME NEW p, Sound(p), NEW q, q \in Pool,
         q.free = p.free, q.used = p.used, q.writeWaiting = p.writeWaiting, q.app = p.app,
         q.orphaned = p.orphaned, \A b \in Buffers : Holds(p.free, b) => q.pkt[b] = Blank
  PROVE  Sound(q)
<1>1. Tables(q)
  BY SoundIs DEF Tables
<1>2. AllAt(q, {}, "free", 0)
  BY DEF AllAt
<1>3. Stay(p, q, {})
  BY DEF Place, Stay
<1> QED
  BY <1>1, <1>2, <1>3, SoundAgain

LEMMA Filled ==
  ASSUME NEW p, Sound(p), NEW fd \in Fds, p.used[fd] # NoBuffer, NEW x \in Packets
  PROVE  Sound(FillBuffer(p, fd, x)) /\ FillBuffer(p, fd, x).used = p.used
<1> DEFINE q == FillBuffer(p, fd, x)
           b == p.used[fd]
<1> p \in Pool
  BY SoundIs
<1>1. b \in Buffers /\ Place(p, b, "used", fd)
  BY SoundIs DEF Place
<1>2. ~ Holds(p.free, b)
  BY <1>1, OnlyThere
<1>3. q = [p EXCEPT !.pkt[b] = x]
  BY DEF FillBuffer
<1> HIDE DEF q, b
<1>4. q \in Pool
  BY <1>3 DEF Pool
<1>5. /\ q.free = p.free /\ q.used = p.used /\ q.writeWaiting = p.writeWaiting
      /\ q.app = p.app /\ q.orphaned = p.orphaned
      /\ \A c \in Buffers \ {b} : q.pkt[c] = p.pkt[c]
  BY <1>3 DEF Pool
<1>6. \A c \in Buffers : Holds(p.free, c) => q.pkt[c] = Blank
  BY <1>2, <1>5, SoundIs DEF Tables
<1> QED
  BY <1>4, <1>5, <1>6, SoundStill DEF q

LEMMA WaiterPopped ==
  ASSUME NEW p, Sound(p), p.readWaiting # <<>>
  PROVE  Sound(PopWaiter(p)) /\ Head(p.readWaiting) \in Fds \cup {Stale}
<1> DEFINE q == PopWaiter(p)
<1> p \in Pool
  BY SoundIs
<1>1. /\ Tail(p.readWaiting) \in Seq(Fds \cup {Stale})
      /\ Head(p.readWaiting) \in Fds \cup {Stale}
  BY DEF Pool
<1>2. q = [p EXCEPT !.readWaiting = Tail(p.readWaiting)]
  BY DEF PopWaiter
<1>3. q \in Pool
  BY <1>1, <1>2 DEF Pool
<1>4. /\ q.free = p.free /\ q.used = p.used /\ q.writeWaiting = p.writeWaiting
      /\ q.app = p.app /\ q.orphaned = p.orphaned /\ q.pkt = p.pkt
  BY <1>2 DEF Pool
<1>5. \A c \in Buffers : Holds(p.free, c) => q.pkt[c] = Blank
  BY <1>4, SoundIs DEF Tables
<1> QED
  BY <1>1, <1>3, <1>4, <1>5, SoundStill

LEMMA Forgotten ==
  ASSUME NEW p, Sound(p), NEW fd \in Fds
  PROVE  Sound(ForgetFd(p, fd))
<1> DEFINE q == ForgetFd(p, fd)
           w == [i \in DOMAIN p.readWaiting |->
                   IF p.readWaiting[i] = fd THEN Stale ELSE p.readWaiting[i]]
<1> p \in Pool
  BY SoundIs
<1>1. w \in Seq(Fds \cup {Stale})
  <2>1. /\ p.readWaiting \in Seq(Fds \cup {Stale})
        /\ DOMAIN p.readWaiting = 1 .. Len(p.readWaiting) /\ Len(p.readWaiting) \in Nat
        /\ \A i \in 1 .. Len(p.readWaiting) : p.readWaiting[i] \in Fds \cup {Stale}
    BY DEF Pool
  <2>2. w \in [1 .. Len(p.readWaiting) -> Fds \cup {Stale}]
    BY <2>1
  <2> HIDE DEF w
  <2> QED
    BY <2>1, <2>2
<1>2. q = [p EXCEPT !.readWaiting = w]
  BY DEF ForgetFd
<1> HIDE DEF q, w
<1>3. q \in Pool
  BY <1>1, <1>2 DEF Pool
<1>4. /\ q.free = p.free /\ q.used = p.used /\ q.writeWaiting = p.writeWaiting
      /\ q.app = p.app /\ q.orphaned = p.orphaned /\ q.pkt = p.pkt
  BY <1>2 DEF Pool
<1>5. \A c \in Buffers : Holds(p.free, c) => q.pkt[c] = Blank
  BY <1>4, SoundIs DEF Tables
<1> QED
  BY <1>3, <1>4, <1>5, SoundStill DEF q

-----------------------------------------------------------------------------
(* The queues that are emptied.                                            *)

LEMMA Concatenated ==
  ASSUME NEW s \in Seq(Buffers), NEW t \in Seq(Buffers), Distinct(s), Distinct(t),
         \A c : ~ (Holds(s, c) /\ Holds(t, c))
  PROVE  /\ s \o t \in Seq(Buffers) /\ Distinct(s \o t)
         /\ \A c : Holds(s \o t, c) <=> Holds(s, c) \/ Holds(t, c)
<1> DEFINE r == s \o t
<1>1. /\ Len(s) \in Nat /\ Len(t) \in Nat /\ r \in Seq(Buffers) /\ Len(r) = Len(s) + Len(t)
      /\ \A i \in 1 .. Len(s) : r[i] = s[i]
      /\ \A i \in 1 .. (Len(s) + Len(t)) : i > Len(s) => r[i] = t[i - Len(s)]
  OBVIOUS
<1> HIDE DEF r
<1>2. ASSUME NEW i \in 1 .. Len(r)
      PROVE  \/ i \in 1 .. Len(s) /\ r[i] = s[i]
             \/ i - Len(s) \in 1 .. Len(t) /\ i > Len(s) /\ r[i] = t[i - Len(s)]
  BY <1>1
<1>3. ASSUME NEW i \in 1 .. Len(t) PROVE i + Len(s) \in 1 .. Len(r) /\ r[i + Len(s)] = t[i]
  <2>1. i + Len(s) \in 1 .. (Len(s) + Len(t)) /\ i + Len(s) > Len(s) /\ (i + Len(s)) - Len(s) = i
    BY <1>1
  <2> QED
    BY <1>1, <2>1
<1>4. \A c : Holds(r, c) <=> Holds(s, c) \/ Holds(t, c)
  <2>1. ASSUME NEW c, Holds(r, c) PROVE Holds(s, c) \/ Holds(t, c)
    BY <1>2, <2>1 DEF Holds
  <2>2. ASSUME NEW c, Holds(s, c) PROVE Holds(r, c)
    BY <1>1, <2>2 DEF Holds
  <2>3. ASSUME NEW c, Holds(t, c) PROVE Holds(r, c)
    BY <1>3, <2>3 DEF Holds
  <2> QED
    BY <2>1, <2>2, <2>3
<1>5. ASSUME NEW i \in 1 .. Len(r), NEW j \in 1 .. Len(r), r[i] = r[j] PROVE i = j
  <2>1. CASE i \in 1 .. Len(s) /\ j \in 1 .. Len(s)
    BY <1>1, <1>5, <2>1 DEF Distinct
  <2>2. CASE i - Len(s) \in 1 .. Len(t) /\ i > Len(s) /\ j - Len(s) \in 1 .. Len(t) /\ j > Len(s)
    <3>1. t[i - Len(s)] = t[j - Len(s)]
      BY <1>1, <1>5, <2>2
    <3>2. i - Len(s) = j - Len(s)
      BY <2>2, <3>1 DEF Distinct
    <3> QED
      BY <1>1, <3>2
  <2>3. ASSUME NEW k \in 1 .. Len(s), NEW m \in 1 .. Len(t) PROVE s[k] # t[m]
    BY DEF Holds
  <2> QED
    BY <1>2, <1>5, <2>1, <2>2, <2>3
<1> QED
  BY <1>1, <1>4, <1>5 DEF Distinct, r

(* Among the members of a set of numbers there is one of every rank. *)
LEMMA Ranks ==
  ASSUME NEW m \in Nat, NEW T, T \subseteq 1 .. m
  PROVE  /\ Cardinality(T) \in Nat
         /\ \A n \in 1 .. Cardinality(T) :
              \E i \in T : Cardinality({j \in T : j <= i}) = n
<1> DEFINE Up(k) == {j \in T : j <= k}
           S == {k \in 0 .. m : \A n \in 1 .. Cardinality(Up(k)) :
                                  \E i \in T : Cardinality(Up(i)) = n}
<1>0. \A j \in T : j \in Nat /\ 1 <= j /\ j <= m
  OBVIOUS
<1>1. IsFiniteSet(1 .. m)
  BY FS_Interval
<1>2. \A k : IsFiniteSet(Up(k)) /\ Cardinality(Up(k)) \in Nat
  <2> SUFFICES ASSUME NEW k PROVE IsFiniteSet(Up(k)) /\ Cardinality(Up(k)) \in Nat
    OBVIOUS
  <2>1. Up(k) \subseteq 1 .. m
    OBVIOUS
  <2>2. IsFiniteSet(Up(k))
    BY <1>1, <2>1, FS_Subset
  <2> QED
    BY <2>2, FS_CardinalityType
<1>3. 0 \in S
  <2>1. Up(0) = {}
    <3>1. \A j \in T : ~ (j <= 0)
      BY <1>0
    <3> QED
      BY <3>1
  <2>2. Cardinality(Up(0)) = 0
    BY <2>1, FS_EmptySet
  <2> QED
    BY <2>2
<1>4. ASSUME NEW k \in 0 .. (m - 1), k \in S PROVE k + 1 \in S
  <2> SUFFICES ASSUME NEW n \in 1 .. Cardinality(Up(k + 1))
               PROVE  \E i \in T : Cardinality(Up(i)) = n
    OBVIOUS
  <2>1. CASE k + 1 \notin T
    <3>1. \A j \in T : j <= k + 1 <=> j <= k
      BY <1>0, <2>1
    <3>2. Up(k + 1) = Up(k)
      BY <3>1
    <3> QED
      BY <1>4, <3>2
  <2>2. CASE k + 1 \in T
    <3>1. Up(k + 1) = Up(k) \cup {k + 1} /\ k + 1 \notin Up(k)
      <4>1. \A j \in T : j <= k + 1 <=> j <= k \/ j = k + 1
        BY <1>0
      <4>2. k + 1 <= k + 1 /\ ~ (k + 1 <= k)
        OBVIOUS
      <4> QED
        BY <2>2, <4>1, <4>2
    <3>2. Cardinality(Up(k + 1)) = Cardinality(Up(k)) + 1
      <4> HIDE DEF Up
      <4>1. IsFiniteSet(Up(k)) /\ k + 1 \notin Up(k)
        BY <1>2, <3>1
      <4>2. Cardinality(Up(k) \cup {k + 1}) = Cardinality(Up(k)) + 1
        BY <4>1, FS_AddElement
      <4> QED
        BY <3>1, <4>2
    <3>3. CASE n = Cardinality(Up(k + 1))
      BY <2>2, <3>3
    <3>4. CASE n # Cardinality(Up(k + 1))
      <4> HIDE DEF Up
      <4>1. n \in 1 .. Cardinality(Up(k))
        BY <1>2, <3>2, <3>4
      <4> QED
        BY <1>4, <4>1
    <3> QED
      BY <3>3, <3>4
  <2> QED
    BY <2>1, <2>2
<1>5. m \in S
  <2> HIDE DEF S
  <2>1. \A k \in 0 .. m : k \in S
    BY <1>3, <1>4, IntervalInduct
  <2> QED
    BY <2>1
<1>6. Up(m) = T
  BY <1>0
<1> HIDE DEF Up
<1>7. Cardinality(T) \in Nat
  BY <1>2, <1>6
<1>8. \A n \in 1 .. Cardinality(T) : \E i \in T : Cardinality(Up(i)) = n
  BY <1>5, <1>6
<1> QED
  BY <1>7, <1>8 DEF Up

LEMMA WithoutTyped ==
  ASSUME NEW W, NEW s \in Seq(W), NEW x
  PROVE  WithoutAll(s, x) \in Seq(W)
<1> DEFINE kept == {i \in DOMAIN s : s[i] # x}
           nth(n) == CHOOSE i \in kept : Cardinality({j \in kept : j <= i}) = n
<1>1. DOMAIN s = 1 .. Len(s) /\ Len(s) \in Nat /\ \A i \in 1 .. Len(s) : s[i] \in W
  OBVIOUS
<1>2. kept \subseteq 1 .. Len(s)
  BY <1>1
<1>3. WithoutAll(s, x) = [n \in 1 .. Cardinality(kept) |-> s[nth(n)]]
  BY DEF WithoutAll
<1> HIDE DEF kept
<1>4. /\ Cardinality(kept) \in Nat
      /\ \A n \in 1 .. Cardinality(kept) :
           \E i \in kept : Cardinality({j \in kept : j <= i}) = n
  BY <1>1, <1>2, Ranks
<1>5. \A n \in 1 .. Cardinality(kept) : nth(n) \in kept
  BY <1>4
<1> HIDE DEF nth
<1>6. \A n \in 1 .. Cardinality(kept) : s[nth(n)] \in W
  BY <1>1, <1>2, <1>5
<1> QED
  BY <1>3, <1>4, <1>6

LEMMA Released ==
  ASSUME NEW p, Sound(p), NEW fd \in Fds
  PROVE  Sound(ReleaseAll(p, fd))
<1> DEFINE q     == ReleaseAll(p, fd)
           b     == p.used[fd]
           s     == p.writeWaiting[fd]
           held  == IF b = NoBuffer THEN <<>> ELSE <<b>>
           given == held \o s
           f     == p.free \o given
           M     == {c \in Buffers : Holds(given, c)}
           k     == [c \in Buffers |-> IF \E i \in DOMAIN given : given[i] = c THEN Blank
                                       ELSE p.pkt[c]]
           w     == WithoutAll(p.readWaiting, fd)
<1> p \in Pool /\ Tables(p) /\ NoBuffer \notin Buffers
  BY SoundIs
<1>1. s \in Seq(Buffers) /\ Distinct(s) /\ b \in Buffers \cup {NoBuffer}
  BY SoundIs
<1>2. held \in Seq(Buffers) /\ Distinct(held) /\ \A c : Holds(held, c) <=> c = b /\ c # NoBuffer
  <2>1. CASE b = NoBuffer
    <3>1. held = <<>>
      BY <2>1
    <3> QED
      BY <2>1, <3>1 DEF Distinct, Holds
  <2>2. CASE b # NoBuffer
    <3>1. held = <<b>> /\ b \in Buffers
      BY <1>1, <2>2
    <3> HIDE DEF b, held
    <3>2. Len(held) = 1 /\ held[1] = b /\ held \in Seq(Buffers)
      BY <3>1
    <3> QED
      BY <2>2, <3>2 DEF Distinct, Holds
  <2> QED
    BY <2>1, <2>2
<1>3. \A c : Holds(held, c) => c \in Buffers /\ Place(p, c, "used", fd)
  BY <1>1, <1>2 DEF Place
<1>4. \A c : Holds(s, c) => c \in Buffers /\ Place(p, c, "queue", fd)
  BY <1>1, QueueIs DEF Place
<1>5. ASSUME NEW c, Holds(held, c) PROVE ~ Holds(s, c)
  <2>1. c \in Buffers /\ Place(p, c, "used", fd)
    BY <1>3, <1>5
  <2> QED
    BY <2>1, OnlyThere
<1> HIDE DEF held
<1>6. /\ given \in Seq(Buffers) /\ Distinct(given)
      /\ \A c : Holds(given, c) <=> Holds(held, c) \/ Holds(s, c)
  BY <1>1, <1>2, <1>5, Concatenated
<1>7. ASSUME NEW c, Holds(given, c)
      PROVE  /\ c \in Buffers /\ ~ Holds(p.free, c)
             /\ \A g \in Fds : (p.used[g] = c \/ Holds(p.writeWaiting[g], c)) => g = fd
             /\ (\A y : <<y, c>> \notin p.app) /\ c \notin p.orphaned
  <2>1. CASE Holds(held, c)
    <3>1. c \in Buffers /\ Place(p, c, "used", fd)
      BY <1>3, <2>1
    <3> QED
      BY <3>1, OnlyThere
  <2>2. CASE Holds(s, c)
    <3>1. c \in Buffers /\ Place(p, c, "queue", fd)
      BY <1>4, <2>2
    <3> QED
      BY <3>1, OnlyThere
  <2> QED
    BY <1>6, <1>7, <2>1, <2>2
<1>8. /\ f \in Seq(Buffers) /\ Distinct(f)
      /\ \A c : Holds(f, c) <=> Holds(p.free, c) \/ Holds(given, c)
  <2>1. p.free \in Seq(Buffers) /\ Distinct(p.free)
    BY SoundIs
  <2> HIDE DEF given
  <2> QED
    BY <1>6, <1>7, <2>1, Concatenated
<1>9. /\ k \in [Buffers -> Packets \cup {Blank}]
      /\ \A c \in Buffers : k[c] = IF Holds(given, c) THEN Blank ELSE p.pkt[c]
  <2>1. DOMAIN given = 1 .. Len(given) /\ p.pkt \in [Buffers -> Packets \cup {Blank}]
    BY <1>6, QueueIs, SoundIs
  <2> HIDE DEF given
  <2> QED
    BY <2>1 DEF Holds
<1>10. w \in Seq(Fds \cup {Stale})
  <2>1. p.readWaiting \in Seq(Fds \cup {Stale})
    BY SoundIs
  <2> QED
    BY <2>1, WithoutTyped
<1>11. q = [p EXCEPT !.used[fd] = NoBuffer, !.writeWaiting[fd] = <<>>, !.free = f,
                     !.pkt = k, !.readWaiting = w]
  BY DEF ReleaseAll, held
<1> HIDE DEF q, f, k, w, given
<1>12. q \in Pool
  <2>1. <<>> \in Seq(Buffers)
    OBVIOUS
  <2> QED
    BY <1>8, <1>9, <1>10, <1>11, <2>1 DEF Pool
<1>13. /\ q.used[fd] = NoBuffer /\ q.writeWaiting[fd] = <<>>
       /\ \A g \in Fds \ {fd} : q.used[g] = p.used[g] /\ q.writeWaiting[g] = p.writeWaiting[g]
       /\ q.free = f /\ q.app = p.app /\ q.orphaned = p.orphaned /\ q.pkt = k
  BY <1>11 DEF Pool
<1>14. Tables(q)
  <2>1. Distinct(<<>>)
    BY DEF Distinct
  <2>2. \A g \in Fds : Distinct(q.writeWaiting[g])
    BY <1>13, <2>1 DEF Tables
  <2>3. \A c \in Buffers : Holds(q.free, c) => q.pkt[c] = Blank
    BY <1>8, <1>9, <1>13 DEF Tables
  <2> QED
    BY <1>8, <1>13, <2>2, <2>3 DEF Tables
<1>15. \A c : ~ Holds(<<>>, c)
  BY DEF Holds
<1>16. AllAt(q, M, "free", 0)
  <2> SUFFICES ASSUME NEW c \in Buffers, Holds(given, c), NEW j, NEW y
               PROVE  Place(q, c, j, y) <=> j = "free" /\ y = 0
    BY DEF AllAt
  <2>1. /\ \A g \in Fds : q.used[g] # c /\ ~ Holds(q.writeWaiting[g], c)
        /\ (\A z : <<z, c>> \notin q.app) /\ c \notin q.orphaned /\ Holds(q.free, c)
    BY <1>7, <1>8, <1>13, <1>15
  <2> QED
    BY <2>1 DEF Place
<1>17. Stay(p, q, M)
  <2> SUFFICES ASSUME NEW c \in Buffers, ~ Holds(given, c), NEW j, NEW y
               PROVE  Place(q, c, j, y) <=> Place(p, c, j, y)
    BY DEF Stay
  <2>1. p.used[fd] # c /\ ~ Holds(p.writeWaiting[fd], c)
    BY <1>2, <1>6
  <2>2. \A g \in Fds : /\ q.used[g] = c <=> p.used[g] = c
                       /\ Holds(q.writeWaiting[g], c) <=> Holds(p.writeWaiting[g], c)
    BY <1>13, <1>15, <2>1
  <2>3. Holds(q.free, c) <=> Holds(p.free, c)
    BY <1>8, <1>13
  <2> QED
    BY <1>13, <2>2, <2>3 DEF Place
<1>18. M \subseteq Buffers
  OBVIOUS
<1> HIDE DEF M
<1> QED
  BY <1>12, <1>14, <1>16, <1>17, <1>18, SoundAgain DEF q

LEMMA Adopted ==
  ASSUME NEW p, Sound(p), NEW fd \in Fds, NEW inherit \in BOOLEAN
  PROVE  Sound(AdoptFd(p, fd, inherit))
<1> DEFINE q == AdoptFd(p, fd, inherit)
           s == p.writeWaiting[fd]
           M == ({p.used[fd]} \ {NoBuffer}) \cup ToSet(s)
<1> p \in Pool /\ Tables(p) /\ NoBuffer \notin Buffers
  BY SoundIs
<1>1. CASE inherit
  BY <1>1 DEF AdoptFd
<1>2. CASE ~ inherit
  <2>1. q = [p EXCEPT !.used[fd] = NoBuffer, !.writeWaiting[fd] = <<>>,
                      !.orphaned = p.orphaned \cup M]
    BY <1>2 DEF AdoptFd, Pool
  <2>2. s \in Seq(Buffers) /\ p.used[fd] \in Buffers \cup {NoBuffer}
    BY SoundIs
  <2>3. \A c : c \in M <=> (c = p.used[fd] /\ c # NoBuffer) \/ Holds(s, c)
    BY <2>2, QueueIs DEF ToSet, Holds
  <2>4. \A c \in M : c \in Buffers
    BY <2>2, <2>3, QueueIs
  <2> HIDE DEF M
  <2>5. ASSUME NEW c \in M
        PROVE  /\ ~ Holds(p.free, c)
               /\ \A g \in Fds : (p.used[g] = c \/ Holds(p.writeWaiting[g], c)) => g = fd
               /\ (\A y : <<y, c>> \notin p.app)
    <3>1. CASE c = p.used[fd]
      <4>1. c \in Buffers /\ Place(p, c, "used", fd)
        BY <2>4, <3>1 DEF Place
      <4> QED
        BY <4>1, OnlyThere
    <3>2. CASE Holds(s, c)
      <4>1. c \in Buffers /\ Place(p, c, "queue", fd)
        BY <2>4, <3>2 DEF Place
      <4> QED
        BY <4>1, OnlyThere
    <3> QED
      BY <2>3, <3>1, <3>2
  <2> HIDE DEF q
  <2>6. q \in Pool
    <3>1. <<>> \in Seq(Buffers)
      OBVIOUS
    <3>2. p.orphaned \cup M \in SUBSET Buffers
      BY <2>4, SoundIs
    <3> HIDE DEF s
    <3> QED
      BY <2>1, <3>1, <3>2 DEF Pool
  <2>7. /\ q.used[fd] = NoBuffer /\ q.writeWaiting[fd] = <<>>
        /\ \A g \in Fds \ {fd} : q.used[g] = p.used[g] /\ q.writeWaiting[g] = p.writeWaiting[g]
        /\ q.free = p.free /\ q.app = p.app /\ q.orphaned = p.orphaned \cup M /\ q.pkt = p.pkt
    BY <2>1 DEF Pool
  <2>8. Tables(q)
    <3>1. Distinct(<<>>)
      BY DEF Distinct
    <3>2. \A g \in Fds : Distinct(q.writeWaiting[g])
      BY <2>7, <3>1 DEF Tables
    <3> QED
      BY <2>7, <3>2 DEF Tables
  <2>9. \A c : ~ Holds(<<>>, c)
    BY DEF Holds
  <2>10. AllAt(q, M, "orphan", 0)
    <3> SUFFICES ASSUME NEW c \in M, NEW j, NEW y
                 PROVE  Place(q, c, j, y) <=> j = "orphan" /\ y = 0
      BY DEF AllAt
    <3>1. /\ \A g \in Fds : q.used[g] # c /\ ~ Holds(q.writeWaiting[g], c)
          /\ (\A z : <<z, c>> \notin q.app) /\ c \in q.orphaned /\ ~ Holds(q.free, c)
      BY <2>4, <2>5, <2>7, <2>9
    <3> QED
      BY <3>1 DEF Place
  <2>11. Stay(p, q, M)
    <3> SUFFICES ASSUME NEW c \in Buffers, c \notin M, NEW j, NEW y
                 PROVE  Place(q, c, j, y) <=> Place(p, c, j, y)
      BY DEF Stay
    <3>1. p.used[fd] # c /\ ~ Holds(p.writeWaiting[fd], c)
      BY <2>3
    <3>2. \A g \in Fds : /\ q.used[g] = c <=> p.used[g] = c
                         /\ Holds(q.writeWaiting[g], c) <=> Holds(p.writeWaiting[g], c)
      BY <2>7, <2>9, <3>1
    <3> QED
      BY <2>7, <3>2 DEF Place
  <2>12. M \subseteq Buffers
    BY <2>4
  <2> QED
    BY <2>6, <2>8, <2>10, <2>11, <2>12, SoundAgain DEF q
<1> QED
  BY <1>1, <1>2


-----------------------------------------------------------------------------
(* The inductive invariant.                                                *)

Listeners == {Listen(p) : p \in Ports}
Loops     == {"dup2", "lightning"}
Files     == (0 .. (MaxConns + 1)) \cup {NoSock}
Watched   == Files \X Fds \X {"in", "out"}
Events    == [w : Watched, fd : Fds, was : Files]

Kernels ==
  [sock : [Fds -> Files], watch : SUBSET Watched, ready : SUBSET Watched,
   hup : SUBSET Watched, rx : [Sockets -> Nat], full : SUBSET Files,
   link : [Conns -> {"none", "open", "broken"}], backlog : [Ports -> Seq(Conns)]]

(* What is registered is open, its URL names its category, only the         *)
(* listening sockets are in theirs, and the UDP writer is never removed.   *)
Wired(r, k) ==
  /\ r \in Registry /\ RegistryInv(r)
  /\ \A fd \in Fds : IsRegistered(r, fd) =>
       /\ k.sock[fd] # NoSock
       /\ r.info[fd].url[1] = r.info[fd].cat
       /\ r.info[fd].cat = "tcp-listen" => fd \in Listeners
  /\ IsRegistered(r, UW) /\ r.info[UW].cat = "udp-write"

(* The second descriptor of a connection that is being added. *)
Adding(r, k, cur, acc) ==
  acc # NoFd => acc \in Fds /\ ~ IsRegistered(r, acc) /\ k.sock[acc] # NoSock /\ cur \in Listeners

(* A call of dup2 or of lightning, that waits for the call above it. *)
Waits(f) == f.pc \in Loops /\ f.bp \in Buffers /\ (f.pc = "dup2" => f.i > 0)

(* The call on top: a callback runs on a descriptor of its category, and    *)
(* tcp_co on the one whose event is handled.                               *)
Runs(f, r, cur, acc) ==
  \/ Waits(f)
  \/ /\ f.pc \in CatNames /\ IsRegistered(r, f.fd) /\ r.info[f.fd].cat = f.pc
     /\ f.pc = "tcp-listen" => acc = NoFd /\ f.fd = cur

Nested(st, r, cur, acc) ==
  /\ st \in Seq(Frame)
  /\ \A i \in 1 .. Len(st) : i > 1 => Waits(st[i])
  /\ st # <<>> => cur \in Fds /\ Runs(Head(st), r, cur, acc)

(* The calls of lightning that have yet to advance its counter. *)
Unsent(st) == Cardinality({i \in 1 .. Len(st) : st[i].pc = "lightning"})

Scalars ==
  /\ algo \in Algos /\ uniq_pkt_sent_id \in Nat \ {0} /\ is_rdy \in BOOLEAN
  /\ current \in Fds \cup {NoFd} /\ accepting \in Fds \cup {NoFd}
  /\ left \in Nat /\ stamp \in Nat
  /\ sent \in [Fds -> Packets]
  /\ fate \in {"run", "exit", "dangling", "crash"}

IInv ==
  /\ Scalars
  /\ Sound(pool)
  /\ kern \in Kernels
  /\ batch \in [err : SUBSET Events, cb : SUBSET Events]
  /\ Wired(reg, kern)
  /\ Adding(reg, kern, current, accepting)
  /\ Nested(stack, reg, current, accepting)
  /\ stamp + left + kern.rx[UdpSock] <= MaxPackets
  /\ uniq_pkt_sent_id + Unsent(stack) <= stamp + 1

-----------------------------------------------------------------------------
(* The constants.                                                          *)

LEMMA NumbersAre ==
  /\ NPorts \in Nat \ {0} /\ MaxConns \in Nat /\ MaxPackets \in Nat
  /\ Fds = 1 .. (2 + NPorts + 2 * MaxConns) /\ Fds \subseteq Nat
  /\ UR \in Fds /\ UW \in Fds /\ UR # UW /\ UR \notin Listeners /\ UW \notin Listeners
  /\ Listeners \subseteq Fds /\ \A p \in Ports : Listen(p) \in Fds /\ Listen(p) \in Listeners
  /\ \A fd \in Listeners : fd - 2 \in Ports
  /\ Ports \subseteq 0 .. NPorts
<1>1. /\ NPorts \in Nat \ {0} /\ MaxConns \in Nat /\ MaxPackets \in Nat
      /\ Fds = 1 .. (2 + NPorts + 2 * MaxConns)
  BY ProxyAssumption
<1>2. \A p \in Ports : Listen(p) \in Fds /\ Listen(p) \in Listeners /\ Listen(p) - 2 \in Ports
                       /\ Listen(p) # 1 /\ Listen(p) # 2
  BY <1>1 DEF Ports, Listen, Listeners
<1>3. \A fd \in Listeners : \E p \in Ports : fd = Listen(p)
  BY DEF Listeners
<1>4. UR \in Fds /\ UW \in Fds /\ UR # UW /\ UR = 1 /\ UW = 2
  BY <1>1 DEF UR, UW
<1>5. Fds \subseteq Nat /\ Ports \subseteq 0 .. NPorts
  BY <1>1 DEF Ports
<1> QED
  BY <1>1, <1>2, <1>3, <1>4, <1>5

LEMMA NamesAre ==
  /\ Cats = CatNames /\ Urls = CatNames \X (0 .. NPorts)
  /\ "tcp-listen" \in Cats /\ "tcp-read" \in Cats /\ "tcp-write" \in Cats
  /\ "udp-read" \in Cats /\ "udp-write" \in Cats
  /\ NoFd \notin Fds /\ NoFd \notin Cats /\ NoFd \notin Urls
  /\ Loops \cap Cats = {}
  /\ \A c \in Cats, p \in 0 .. NPorts : <<c, p>> \in Urls
  BY ProxyAssumption, EvtCoreAssumption DEF CatNames, Loops

LEMMA FilesAre ==
  /\ NoSock \in Files /\ UdpSock \in Files /\ ListenSock \in Files /\ Conns \subseteq Files
  /\ NoSock # UdpSock /\ NoSock \notin Conns /\ NoSock # ListenSock
  /\ Conns \subseteq Sockets /\ UdpSock \in Sockets /\ Sockets \subseteq Files
<1>1. MaxConns \in Nat /\ NPorts \in Nat /\ NPorts > 0
      /\ NoFd \notin Fds /\ NoSock # UdpSock /\ Fds = 1 .. (2 + NPorts + 2 * MaxConns)
  BY NumbersAre, NamesAre, ProxyAssumption
<1>2. NoFd \notin Conns /\ NoFd # ListenSock
  BY <1>1 DEF Conns, ListenSock
<1> QED
  BY <1>1, <1>2 DEF NoSock, UdpSock, ListenSock, Conns, Sockets, Files

-----------------------------------------------------------------------------
(* The registry and the descriptors it leads to.                           *)

LEMMA WiredIs ==
  ASSUME NEW r, NEW k, Wired(r, k)
  PROVE  /\ r \in Registry /\ RegistryInv(r)
         /\ r.info \in [Fds -> Info \cup {NoInfo}]
         /\ r.list \in [Cats -> Seq(Fds)] /\ r.url \in [Urls -> Fds \cup {NoFd}]
         /\ \A fd \in Fds : IsRegistered(r, fd) =>
              /\ r.info[fd].cat \in Cats /\ r.info[fd].url \in Urls
              /\ k.sock[fd] # NoSock
              /\ r.info[fd].url[1] = r.info[fd].cat
              /\ r.info[fd].url[2] \in 0 .. NPorts
              /\ r.info[fd].cat = "tcp-listen" => fd \in Listeners
         /\ IsRegistered(r, UW) /\ r.info[UW].cat = "udp-write"
<1>1. r \in Registry /\ RegistryInv(r) /\ r.info \in [Fds -> Info \cup {NoInfo}]
      /\ r.list \in [Cats -> Seq(Fds)] /\ r.url \in [Urls -> Fds \cup {NoFd}]
  BY DEF Wired, Registry
<1>2. \A fd \in Fds : IsRegistered(r, fd) => r.info[fd] \in Info
  BY <1>1 DEF IsRegistered
<1>3. \A fd \in Fds : IsRegistered(r, fd) =>
        r.info[fd].cat \in Cats /\ r.info[fd].url \in Urls /\ r.info[fd].url[2] \in 0 .. NPorts
  BY <1>2, NamesAre DEF Info
<1> QED
  BY <1>1, <1>3 DEF Wired

(* What a list or a URL leads to is registered, and in that category. *)
LEMMA Leads ==
  ASSUME NEW r, NEW k, Wired(r, k)
  PROVE  /\ \A c \in Cats : \A i \in 1 .. Len(r.list[c]) :
              r.list[c][i] \in Fds /\ IsRegistered(r, r.list[c][i])
              /\ r.info[r.list[c][i]].cat = c
         /\ \A u \in Urls : FromUrl(r, u) # NoFd =>
              FromUrl(r, u) \in Fds /\ IsRegistered(r, FromUrl(r, u))
              /\ r.info[FromUrl(r, u)].cat = u[1] /\ r.info[FromUrl(r, u)].url = u
<1>1. /\ r.list \in [Cats -> Seq(Fds)] /\ r.url \in [Urls -> Fds \cup {NoFd}]
      /\ ListsAgree(r) /\ UrlsLive(r)
  BY WiredIs DEF RegistryInv
<1>2. NoInfo.cat = NoFd /\ NoInfo.url = NoFd
  BY DEF NoInfo
<1>3. ASSUME NEW c \in Cats, NEW i \in 1 .. Len(r.list[c])
      PROVE  r.list[c][i] \in Fds /\ IsRegistered(r, r.list[c][i]) /\ r.info[r.list[c][i]].cat = c
  <2>1. r.list[c] \in Seq(Fds) /\ DOMAIN r.list[c] = 1 .. Len(r.list[c])
    BY <1>1
  <2>2. r.list[c][i] \in Fds
    BY <2>1
  <2>3. r.info[r.list[c][i]].cat = c
    BY <1>1, <2>1 DEF ListsAgree
  <2> QED
    BY <1>2, <2>2, <2>3, NamesAre DEF IsRegistered
<1>4. ASSUME NEW u \in Urls, FromUrl(r, u) # NoFd
      PROVE  FromUrl(r, u) \in Fds /\ IsRegistered(r, FromUrl(r, u))
             /\ r.info[FromUrl(r, u)].cat = u[1] /\ r.info[FromUrl(r, u)].url = u
  <2>1. FromUrl(r, u) \in Fds /\ r.info[FromUrl(r, u)].url = u
    BY <1>1, <1>4 DEF FromUrl, UrlsLive
  <2>2. IsRegistered(r, FromUrl(r, u))
    BY <1>2, <2>1, NamesAre DEF IsRegistered
  <2> QED
    BY <2>1, <2>2, WiredIs
<1> QED
  BY <1>3, <1>4

(* Registered before is registered after, and only fd besides. *)
SameBut(r, t, fd) ==
  \A g \in Fds \ {fd} : (IsRegistered(t, g) <=> IsRegistered(r, g)) /\ t.info[g] = r.info[g]

LEMMA AddWired ==
  ASSUME NEW r, NEW k, Wired(r, k), NEW fd \in Fds, ~ IsRegistered(r, fd),
         NEW c \in Cats, c # "tcp-listen", NEW p \in 0 .. NPorts,
         NEW k2, k2.sock[fd] # NoSock,
         \A g \in Fds : k.sock[g] # NoSock => k2.sock[g] # NoSock
  PROVE  /\ Wired(AddFd(r, fd, c, <<c, p>>), k2)
         /\ IsRegistered(AddFd(r, fd, c, <<c, p>>), fd)
         /\ AddFd(r, fd, c, <<c, p>>).info[fd].cat = c
         /\ SameBut(r, AddFd(r, fd, c, <<c, p>>), fd)
<1> DEFINE u == <<c, p>>
           t == AddFd(r, fd, c, u)
<1>1. u \in Urls /\ u[1] = c
  BY NamesAre
<1>2. r \in Registry /\ RegistryInv(r) /\ r.info \in [Fds -> Info \cup {NoInfo}]
  BY WiredIs
<1>3. t.info = [r.info EXCEPT ![fd] = [cat |-> c, url |-> u]]
  <2>1. Added(r, t, fd, c, u)
    BY <1>1, <1>2, AddFields
  <2> QED
    BY <2>1 DEF Added
<1>4. t \in Registry /\ RegistryInv(t)
  BY <1>1, <1>2, AddKeepsRegistry
<1> HIDE DEF t, u
<1>5. t.info[fd] = [cat |-> c, url |-> u] /\ \A g \in Fds \ {fd} : t.info[g] = r.info[g]
  BY <1>2, <1>3
<1>6. IsRegistered(t, fd) /\ t.info[fd].cat = c /\ t.info[fd].url = u
  BY <1>5, NamesAre DEF IsRegistered, NoInfo
<1>7. SameBut(r, t, fd)
  BY <1>5 DEF SameBut, IsRegistered
<1>8. UW # fd
  BY WiredIs
<1>9. ASSUME NEW g \in Fds, IsRegistered(t, g)
      PROVE  /\ k2.sock[g] # NoSock /\ t.info[g].url[1] = t.info[g].cat
             /\ t.info[g].cat = "tcp-listen" => g \in Listeners
  <2>1. CASE g = fd
    BY <1>1, <1>6, <2>1
  <2>2. CASE g # fd
    BY <1>7, <1>9, <2>2, WiredIs DEF SameBut
  <2> QED
    BY <2>1, <2>2
<1>10. IsRegistered(t, UW) /\ t.info[UW].cat = "udp-write"
  BY <1>7, <1>8, NumbersAre, WiredIs DEF SameBut
<1>11. Wired(t, k2)
  BY <1>4, <1>9, <1>10 DEF Wired
<1> QED
  BY <1>6, <1>7, <1>11 DEF t, u

LEMMA Rewired ==
  ASSUME NEW r, NEW k, Wired(r, k), NEW k2,
         \A g \in Fds : k.sock[g] # NoSock => k2.sock[g] # NoSock
  PROVE  Wired(r, k2)
  BY DEF Wired

LEMMA BlacklistCleared ==
  ASSUME NEW r, NEW k, Wired(r, k), NEW k2,
         \A g \in Fds : k.sock[g] # NoSock => k2.sock[g] # NoSock
  PROVE  Wired(ClearBlacklist(r), k2)
<1> DEFINE t == ClearBlacklist(r)
<1> r \in Registry
  BY WiredIs
<1>1. t = [r EXCEPT !.black = <<>>]
  BY DEF ClearBlacklist
<1>2. <<>> \in Seq(Fds)
  OBVIOUS
<1> HIDE DEF t
<1>3. t \in Registry /\ t.info = r.info /\ t.list = r.list /\ t.url = r.url /\ t.key = r.key
  BY <1>1, <1>2 DEF Registry
<1>4. RegistryInv(t)
  BY <1>3, WiredIs DEF RegistryInv, ListsAgree, UrlsLive, Registered, IsRegistered
<1>5. Wired(t, k2)
  BY <1>3, <1>4 DEF Wired, IsRegistered
<1> QED
  BY <1>5 DEF t

(* Only the closed descriptor is closed. *)
LEMMA Closing ==
  ASSUME NEW k \in Kernels, NEW fd \in Fds
  PROVE  /\ Close(k, fd) \in Kernels /\ Close(k, fd).rx = k.rx
         /\ \A g \in Fds \ {fd} : Close(k, fd).sock[g] = k.sock[g]
<1> DEFINE s    == k.sock[fd]
           last == \A g \in Fds : k.sock[g] = s => g = fd
           gone == IF last THEN Watches(k, s) ELSE {}
           t    == Close(k, fd)
<1>1. t = [k EXCEPT !.sock[fd] = NoSock, !.watch = k.watch \ gone, !.ready = k.ready \ gone,
                    !.hup = k.hup \ gone]
  BY DEF Close
<1> HIDE DEF gone, t
<1>2. t \in Kernels
  BY <1>1, FilesAre DEF Kernels
<1>3. t.rx = k.rx /\ t.sock = [k.sock EXCEPT ![fd] = NoSock]
  BY <1>1 DEF Kernels
<1>4. k.sock \in [Fds -> Files]
  BY DEF Kernels
<1> QED
  BY <1>2, <1>3, <1>4 DEF t

LEMMA RmWired ==
  ASSUME NEW r, NEW k \in Kernels, Wired(r, k), NEW fd \in Fds, IsRegistered(r, fd),
         r.info[fd].cat # "udp-write"
  PROVE  /\ Wired(RmFd(r, fd), Close(k, fd))
         /\ ~ IsRegistered(RmFd(r, fd), fd)
         /\ SameBut(r, RmFd(r, fd), fd)
<1> DEFINE t  == RmFd(r, fd)
           k2 == Close(k, fd)
<1>1. r \in Registry /\ RegistryInv(r) /\ r.info \in [Fds -> Info \cup {NoInfo}]
  BY WiredIs
<1>2. t.info = [r.info EXCEPT ![fd] = NoInfo]
  BY <1>1, RmFields DEF Removed
<1>3. t \in Registry /\ RegistryInv(t)
  BY <1>1, RmKeepsRegistry
<1>4. \A g \in Fds \ {fd} : k2.sock[g] = k.sock[g]
  BY Closing
<1> HIDE DEF t, k2
<1>5. t.info[fd] = NoInfo /\ \A g \in Fds \ {fd} : t.info[g] = r.info[g]
  BY <1>1, <1>2
<1>6. ~ IsRegistered(t, fd)
  BY <1>5 DEF IsRegistered
<1>7. SameBut(r, t, fd)
  BY <1>5 DEF SameBut, IsRegistered
<1>8. UW # fd
  BY WiredIs
<1>9. ASSUME NEW g \in Fds, IsRegistered(t, g)
      PROVE  /\ k2.sock[g] # NoSock /\ t.info[g].url[1] = t.info[g].cat
             /\ t.info[g].cat = "tcp-listen" => g \in Listeners
  BY <1>4, <1>6, <1>7, <1>9, WiredIs DEF SameBut
<1>10. IsRegistered(t, UW) /\ t.info[UW].cat = "udp-write"
  BY <1>7, <1>8, NumbersAre, WiredIs DEF SameBut
<1>11. Wired(t, k2)
  BY <1>3, <1>9, <1>10 DEF Wired
<1> QED
  BY <1>6, <1>7, <1>11 DEF t, k2

-----------------------------------------------------------------------------
(* The sockets and the epoll instance.                                     *)

LEMMA KernelIs ==
  ASSUME NEW k, k \in Kernels
  PROVE  /\ k.sock \in [Fds -> Files] /\ k.watch \subseteq Watched /\ k.ready \subseteq Watched
         /\ k.hup \subseteq Watched /\ k.rx \in [Sockets -> Nat] /\ k.full \subseteq Files
         /\ k.link \in [Conns -> {"none", "open", "broken"}]
         /\ k.backlog \in [Ports -> Seq(Conns)] /\ k.rx[UdpSock] \in Nat
<1>1. UdpSock \in Sockets
  BY FilesAre
<1> QED
  BY <1>1 DEF Kernels

LEMMA Watching ==
  ASSUME NEW k \in Kernels, NEW w \in Watched, NEW a, NEW b
  PROVE  /\ Watch(k, w, a, b) \in Kernels
         /\ Watch(k, w, a, b).rx = k.rx /\ Watch(k, w, a, b).sock = k.sock
<1> DEFINE r == IF a THEN k.ready \cup {w} ELSE k.ready
           h == IF b THEN k.hup \cup {w} ELSE k.hup
           t == Watch(k, w, a, b)
<1>1. t = [k EXCEPT !.watch = k.watch \cup {w}, !.ready = r, !.hup = h]
  BY DEF Watch
<1>2. r \subseteq Watched /\ h \subseteq Watched /\ k.watch \cup {w} \subseteq Watched
  BY KernelIs
<1> HIDE DEF r, h, t
<1>3. t \in Kernels /\ t.rx = k.rx /\ t.sock = k.sock
  BY <1>1, <1>2 DEF Kernels
<1> QED
  BY <1>3 DEF t

LEMMA Reporting ==
  ASSUME NEW k \in Kernels, NEW ws
  PROVE  /\ Reported(k, ws) \in Kernels /\ Reported(k, ws).rx = k.rx
         /\ Reported(k, ws).sock = k.sock
<1>1. k.ready \ ws \subseteq Watched /\ k.hup \ ws \subseteq Watched
  BY KernelIs
<1> QED
  BY <1>1 DEF Reported, Kernels

LEMMA Consuming ==
  ASSUME kern \in Kernels, NEW s \in Files, kern.rx[s] > 0
  PROVE  /\ Consume(s) \in Kernels /\ Consume(s).sock = kern.sock
         /\ Consume(s).rx[UdpSock] <= kern.rx[UdpSock]
         /\ s = UdpSock => Consume(s).rx[UdpSock] = kern.rx[UdpSock] - 1
<1> DEFINE x == [kern.rx EXCEPT ![s] = kern.rx[s] - 1]
           r == IF kern.rx[s] = 1 THEN kern.ready \ Ins(kern, s) ELSE kern.ready
           t == Consume(s)
<1>1. t = [kern EXCEPT !.rx = x, !.ready = r]
  BY DEF Consume
<1>2. kern.rx \in [Sockets -> Nat] /\ UdpSock \in Sockets
  BY KernelIs, FilesAre
<1>3. x \in [Sockets -> Nat] /\ x[UdpSock] <= kern.rx[UdpSock]
      /\ (s = UdpSock => x[UdpSock] = kern.rx[UdpSock] - 1)
  <2>1. CASE s \in Sockets
    <3>1. kern.rx[s] \in Nat /\ kern.rx[s] - 1 \in Nat /\ kern.rx[UdpSock] \in Nat
      BY <1>2, <2>1
    <3>2. x \in [Sockets -> Nat] /\ x[s] = kern.rx[s] - 1
          /\ (s # UdpSock => x[UdpSock] = kern.rx[UdpSock])
      BY <1>2, <2>1, <3>1
    <3> HIDE DEF x
    <3>3. CASE s = UdpSock
      BY <3>1, <3>2, <3>3
    <3>4. CASE s # UdpSock
      BY <3>1, <3>2, <3>4
    <3> QED
      BY <3>3, <3>4
  <2>2. CASE s \notin Sockets
    <3>1. x = kern.rx /\ s # UdpSock /\ kern.rx[UdpSock] \in Nat
      BY <1>2, <2>2
    <3> HIDE DEF x
    <3> QED
      BY <1>2, <3>1
  <2> QED
    BY <2>1, <2>2
<1>4. r \subseteq Watched
  BY KernelIs
<1> HIDE DEF x, r, t
<1>5. t \in Kernels /\ t.rx = x /\ t.sock = kern.sock
  BY <1>1, <1>3, <1>4 DEF Kernels
<1> QED
  BY <1>3, <1>5 DEF t

LEMMA Filling ==
  ASSUME kern \in Kernels, NEW s \in Files
  PROVE  FillUp(s) \in Kernels /\ FillUp(s).sock = kern.sock /\ FillUp(s).rx = kern.rx
<1>1. kern.full \cup {s} \subseteq Files /\ kern.ready \ Outs(kern, s) \subseteq Watched
  BY KernelIs
<1> QED
  BY <1>1 DEF FillUp, Kernels

LEMMA BatchTyped ==
  ASSUME kern \in Kernels, NEW ws \in SUBSET Pending
  PROVE  BatchOf(kern, ws) \in [err : SUBSET Events, cb : SUBSET Events]
<1>1. Pending \subseteq Watched
  BY KernelIs DEF Pending, Watches
<1>2. \A w \in ws : Event(kern, w) \in Events
  <2> TAKE w \in ws
  <2>1. w \in Watched /\ w[2] \in Fds
    BY <1>1 DEF Watched
  <2>2. kern.sock[w[2]] \in Files
    BY <2>1, KernelIs
  <2> QED
    BY <2>1, <2>2 DEF Event, Events
<1> QED
  BY <1>2 DEF BatchOf

-----------------------------------------------------------------------------
(* The calls in progress.                                                  *)

Has(f) == IF f.pc = "lightning" THEN 1 ELSE 0

LEMMA PushedIs ==
  ASSUME NEW f \in Frame, NEW st \in Seq(Frame)
  PROVE  /\ <<f>> \o st \in Seq(Frame) /\ <<f>> \o st # <<>>
         /\ Head(<<f>> \o st) = f /\ Tail(<<f>> \o st) = st
         /\ Len(<<f>> \o st) = Len(st) + 1
         /\ (<<f>> \o st)[1] = f
         /\ \A i \in 1 .. Len(st) : (<<f>> \o st)[i + 1] = st[i]
<1> DEFINE t == <<f>> \o st
<1>1. <<f>> \in Seq(Frame) /\ Len(<<f>>) = 1 /\ <<f>>[1] = f
  OBVIOUS
<1>2. t \in Seq(Frame) /\ Len(t) = Len(st) + 1 /\ t[1] = f
      /\ \A i \in 1 .. Len(st) : t[i + 1] = st[i]
  BY <1>1
<1>3. Tail(t) = st
  <2>1. Tail(t) \in Seq(Frame) /\ Len(Tail(t)) = Len(st)
        /\ \A i \in 1 .. Len(st) : Tail(t)[i] = t[i + 1]
    <3> HIDE DEF t
    <3>1. t # <<>>
      BY <1>2
    <3> QED
      BY <1>2, <3>1
  <2> HIDE DEF t
  <2>2. \A i \in 1 .. Len(st) : Tail(t)[i] = st[i]
    BY <1>2, <2>1
  <2> QED
    BY <2>1, <2>2
<1> HIDE DEF t
<1>4. t # <<>> /\ Head(t) = f
  BY <1>2
<1> QED
  BY <1>2, <1>3, <1>4 DEF t

LEMMA TopIs ==
  ASSUME NEW st \in Seq(Frame), st # <<>>
  PROVE  /\ Head(st) \in Frame /\ Tail(st) \in Seq(Frame) /\ Len(Tail(st)) = Len(st) - 1
         /\ Head(st) = st[1] /\ Len(st) \in Nat \ {0}
         /\ \A i \in 1 .. Len(Tail(st)) : Tail(st)[i] = st[i + 1]
         /\ st = <<Head(st)>> \o Tail(st)
  OBVIOUS

LEMMA TwoPushed ==
  ASSUME NEW S, NEW f \in S, NEW g \in S, NEW st \in Seq(S)
  PROVE  <<g, f>> \o st = <<g>> \o (<<f>> \o st)
  OBVIOUS

LEMMA UnsentEmpty == Unsent(<<>>) = 0
<1>1. {i \in 1 .. Len(<<>>) : <<>>[i].pc = "lightning"} = {}
  OBVIOUS
<1> QED
  BY <1>1, FS_EmptySet DEF Unsent

LEMMA UnsentPushed ==
  ASSUME NEW f \in Frame, NEW st \in Seq(Frame)
  PROVE  Unsent(<<f>> \o st) = Unsent(st) + Has(f) /\ Unsent(st) \in Nat
<1> DEFINE t == <<f>> \o st
           S == {i \in 1 .. Len(st) : st[i].pc = "lightning"}
           T == {i \in 1 .. Len(t) : t[i].pc = "lightning"}
           U == {i \in T : i > 1}
           g == [i \in S |-> i + 1]
<1>1. Len(t) = Len(st) + 1 /\ t[1] = f /\ \A i \in 1 .. Len(st) : t[i + 1] = st[i]
  BY PushedIs
<1>2. Len(st) \in Nat
  OBVIOUS
<1> HIDE DEF t
<1>3. IsFiniteSet(S) /\ Cardinality(S) \in Nat
  <2>1. IsFiniteSet(1 .. Len(st))
    BY <1>2, FS_Interval
  <2>2. IsFiniteSet(S)
    BY <2>1, FS_Subset
  <2> QED
    BY <2>2, FS_CardinalityType
<1>4. g \in Bijection(S, U)
  <2>1. \A i \in S : g[i] \in U
    BY <1>1, <1>2
  <2>2. \A i, j \in S : g[i] = g[j] => i = j
    BY <1>2
  <2>3. ASSUME NEW j \in U PROVE \E i \in S : g[i] = j
    <3>1. j - 1 \in 1 .. Len(st) /\ t[(j - 1) + 1] = st[j - 1] /\ (j - 1) + 1 = j
      BY <1>1, <1>2
    <3>2. j - 1 \in S
      BY <3>1
    <3> QED
      BY <3>1, <3>2
  <2> HIDE DEF U, S
  <2>4. g \in [S -> U]
    BY <2>1
  <2>5. g \in Injection(S, U)
    BY <2>2, <2>4 DEF Injection, IsInjective
  <2>6. g \in Surjection(S, U)
    BY <2>3, <2>4 DEF Surjection
  <2> QED
    BY <2>5, <2>6 DEF Bijection
<1>5. IsFiniteSet(U) /\ Cardinality(U) = Cardinality(S)
  <2> HIDE DEF S, U, g
  <2> QED
    BY <1>3, <1>4, FS_Bijection DEF ExistsBijection
<1>6. T = IF f.pc = "lightning" THEN U \cup {1} ELSE U
  <2>1. 1 \in 1 .. Len(t)
    BY <1>1, <1>2
  <2>2. \A i \in 1 .. Len(t) : i = 1 \/ i > 1
    BY <1>1, <1>2
  <2>3. 1 \in T <=> f.pc = "lightning"
    BY <1>1, <2>1
  <2> QED
    BY <2>2, <2>3
<1>7. 1 \notin U
  OBVIOUS
<1> HIDE DEF S, T, U, g
<1>8. Cardinality(T) = Cardinality(U) + Has(f)
  <2>1. Cardinality(U \cup {1}) = Cardinality(U) + 1
    BY <1>5, <1>7, FS_AddElement
  <2>2. Cardinality(U) \in Nat
    BY <1>3, <1>5
  <2> QED
    BY <1>6, <2>1, <2>2 DEF Has
<1>9. Unsent(t) = Cardinality(T) /\ Unsent(st) = Cardinality(S)
  BY DEF Unsent, S, T
<1> QED
  BY <1>3, <1>5, <1>8, <1>9 DEF t

LEMMA UnsentPopped ==
  ASSUME NEW st \in Seq(Frame), st # <<>>
  PROVE  /\ Unsent(st) = Unsent(Tail(st)) + Has(Head(st))
         /\ Unsent(st) \in Nat /\ Unsent(Tail(st)) \in Nat
<1>1. Head(st) \in Frame /\ Tail(st) \in Seq(Frame) /\ st = <<Head(st)>> \o Tail(st)
  BY TopIs
<1>2. Unsent(<<Head(st)>> \o Tail(st)) = Unsent(Tail(st)) + Has(Head(st))
      /\ Unsent(Tail(st)) \in Nat
  BY <1>1, UnsentPushed
<1>3. Unsent(st) = Unsent(Tail(st)) + Has(Head(st))
  BY <1>1, <1>2
<1>4. Has(Head(st)) \in Nat
  BY DEF Has
<1> QED
  BY <1>2, <1>3, <1>4

(* The calls that wait below the one on top. *)
Waiting(st) == st \in Seq(Frame) /\ \A i \in 1 .. Len(st) : Waits(st[i])

LEMMA Popped ==
  ASSUME NEW st, st # <<>>, NEW r, NEW cur, NEW acc, Nested(st, r, cur, acc)
  PROVE  /\ st \in Seq(Frame) /\ Head(st) \in Frame /\ cur \in Fds
         /\ Runs(Head(st), r, cur, acc) /\ Waiting(Tail(st))
<1>1. st \in Seq(Frame) /\ cur \in Fds /\ Runs(Head(st), r, cur, acc)
      /\ \A i \in 1 .. Len(st) : i > 1 => Waits(st[i])
  BY DEF Nested
<1>2. /\ Head(st) \in Frame /\ Tail(st) \in Seq(Frame) /\ Len(Tail(st)) = Len(st) - 1
      /\ Len(st) \in Nat \ {0} /\ \A i \in 1 .. Len(Tail(st)) : Tail(st)[i] = st[i + 1]
  BY <1>1, TopIs
<1>3. \A i \in 1 .. Len(Tail(st)) : i + 1 \in 1 .. Len(st) /\ i + 1 > 1
  BY <1>2
<1>4. \A i \in 1 .. Len(Tail(st)) : Waits(Tail(st)[i])
  BY <1>1, <1>2, <1>3
<1> QED
  BY <1>1, <1>2, <1>4 DEF Waiting

LEMMA Pushed ==
  ASSUME NEW st, Waiting(st), NEW f \in Frame, NEW r, NEW cur \in Fds, NEW acc,
         Runs(f, r, cur, acc)
  PROVE  Nested(<<f>> \o st, r, cur, acc)
<1> DEFINE t == <<f>> \o st
<1>1. st \in Seq(Frame) /\ Len(st) \in Nat /\ \A i \in 1 .. Len(st) : Waits(st[i])
  BY DEF Waiting
<1>2. /\ t \in Seq(Frame) /\ Head(t) = f /\ Len(t) = Len(st) + 1
      /\ \A i \in 1 .. Len(st) : t[i + 1] = st[i]
  BY <1>1, PushedIs
<1> HIDE DEF t
<1>3. ASSUME NEW i \in 1 .. Len(t), i > 1 PROVE Waits(t[i])
  <2>1. i - 1 \in 1 .. Len(st) /\ (i - 1) + 1 = i
    BY <1>1, <1>2, <1>3
  <2>2. t[i] = st[i - 1]
    BY <1>2, <2>1
  <2> QED
    BY <1>1, <2>1, <2>2
<1>4. Nested(t, r, cur, acc)
  BY <1>2, <1>3 DEF Nested
<1> QED
  BY <1>4 DEF t

LEMMA NoneIs ==
  ASSUME NEW S, NEW s \in Seq(S), Len(s) = 0
  PROVE  s = <<>>
  OBVIOUS

LEMMA Alone ==
  ASSUME NEW f \in Frame, NEW r, NEW cur \in Fds, NEW acc, Runs(f, r, cur, acc)
  PROVE  Nested(<<f>>, r, cur, acc) /\ Unsent(<<f>>) = Has(f)
<1>1. <<>> \in Seq(Frame) /\ <<f>> \o <<>> = <<f>>
  OBVIOUS
<1>2. Waiting(<<>>)
  BY <1>1 DEF Waiting
<1>3. Nested(<<f>> \o <<>>, r, cur, acc)
  BY <1>2, Pushed
<1>4. Unsent(<<f>> \o <<>>) = 0 + Has(f)
  BY <1>1, UnsentPushed, UnsentEmpty
<1>5. Has(f) \in Nat
  BY DEF Has
<1> QED
  BY <1>1, <1>3, <1>4, <1>5

LEMMA Settled ==
  ASSUME NEW st, Waiting(st), NEW r, NEW cur, NEW acc, st # <<>> => cur \in Fds
  PROVE  Nested(st, r, cur, acc)
<1>1. st \in Seq(Frame) /\ \A i \in 1 .. Len(st) : Waits(st[i])
  BY DEF Waiting
<1>2. ASSUME st # <<>> PROVE Waits(Head(st))
  <2>1. Head(st) = st[1] /\ 1 \in 1 .. Len(st)
    BY <1>1, <1>2
  <2> QED
    BY <1>1, <2>1
<1> QED
  BY <1>1, <1>2 DEF Nested, Runs

LEMMA CallbackRuns ==
  ASSUME NEW r, NEW k, Wired(r, k), NEW fd \in Fds, IsRegistered(r, fd), NEW zero \in BOOLEAN,
         NEW cur, NEW acc, r.info[fd].cat = "tcp-listen" => acc = NoFd /\ fd = cur
  PROVE  /\ Callback(r, fd, zero) \in Frame /\ Runs(Callback(r, fd, zero), r, cur, acc)
         /\ Has(Callback(r, fd, zero)) = 0
<1> DEFINE f == Callback(r, fd, zero)
<1>1. r.info[fd].cat \in CatNames
  BY WiredIs, NamesAre
<1>2. f.pc = r.info[fd].cat /\ f.fd = fd
  BY DEF Callback
<1>3. <<>> \in Seq(Ports)
  OBVIOUS
<1>4. f \in Frame
  BY <1>1, <1>3 DEF Callback, Frame
<1> HIDE DEF f
<1>5. Runs(f, r, cur, acc)
  BY <1>1, <1>2 DEF Runs
<1>6. Has(f) = 0
  BY <1>1, <1>2 DEF Has, CatNames
<1> QED
  BY <1>4, <1>5, <1>6 DEF f

(* A step that leaves the calls in order, and adds n that have to advance   *)
(* lightning's counter.                                                    *)
Onward(n) ==
  /\ Nested(stack', reg', current', accepting')
  /\ Adding(reg', kern', current', accepting')
  /\ current' \in Fds \cup {NoFd} /\ accepting' \in Fds \cup {NoFd}
  /\ fate' \in {"run", "exit", "dangling", "crash"}
  /\ Unsent(stack') \in Nat /\ Unsent(stack) \in Nat /\ Has(Top) \in Nat
  /\ Unsent(stack') + Has(Top) <= Unsent(stack) + n

(* The state in which a call runs, and what it leaves as it should be. *)
Called ==
  /\ stack # <<>> /\ fate = "run"
  /\ Nested(stack, reg, current, accepting)
  /\ accepting \in Fds \cup {NoFd}
  /\ Wired(reg', kern') /\ Adding(reg', kern', current, accepting)

LEMMA CalledIs ==
  ASSUME Called
  PROVE  /\ stack \in Seq(Frame) /\ Top \in Frame /\ current \in Fds /\ Waiting(Tail(stack))
         /\ Unsent(stack) = Unsent(Tail(stack)) + Has(Top)
         /\ Unsent(stack) \in Nat /\ Unsent(Tail(stack)) \in Nat /\ Has(Top) \in Nat
<1>1. stack \in Seq(Frame) /\ Top \in Frame /\ current \in Fds /\ Waiting(Tail(stack))
  BY Popped DEF Called, Top
<1>2. Unsent(stack) = Unsent(Tail(stack)) + Has(Top)
      /\ Unsent(stack) \in Nat /\ Unsent(Tail(stack)) \in Nat
  BY <1>1, UnsentPopped DEF Called, Top
<1>3. Has(Top) \in Nat
  BY DEF Has
<1> QED
  BY <1>1, <1>2, <1>3

LEMMA Returning ==
  ASSUME Called, NEW v, Return(v)
  PROVE  Onward(0)
<1> DEFINE again == Len(stack) = 1 /\ accepting = NoFd /\ v = 0
           alive == IsRegistered(reg', current)
<1>1. /\ stack' = IF again /\ alive THEN <<Callback(reg', current, FALSE)>> ELSE Tail(stack)
      /\ current' = IF Len(stack) = 1 /\ accepting = NoFd /\ v # 0 THEN NoFd ELSE current
      /\ fate' = IF again /\ ~ alive THEN "dangling" ELSE fate
      /\ accepting' = accepting
  BY DEF Return
<1>2. /\ stack \in Seq(Frame) /\ current \in Fds /\ Waiting(Tail(stack))
      /\ Unsent(stack) = Unsent(Tail(stack)) + Has(Top)
      /\ Unsent(stack) \in Nat /\ Unsent(Tail(stack)) \in Nat /\ Has(Top) \in Nat
  BY CalledIs
<1>3. /\ fate = "run" /\ accepting \in Fds \cup {NoFd} /\ stack # <<>>
      /\ Wired(reg', kern') /\ Adding(reg', kern', current, accepting)
  BY DEF Called
<1>4. ASSUME Len(stack) = 1 PROVE Tail(stack) = <<>>
  <2>1. Tail(stack) \in Seq(Frame) /\ Len(Tail(stack)) = 0
    BY <1>2, <1>3, <1>4, TopIs
  <2> QED
    BY <2>1, NoneIs
<1>5. Adding(reg', kern', current', accepting')
  BY <1>1, <1>3 DEF Adding
<1>6. current' \in Fds \cup {NoFd} /\ accepting' \in Fds \cup {NoFd}
      /\ fate' \in {"run", "exit", "dangling", "crash"}
  BY <1>1, <1>2, <1>3
<1>7. CASE again /\ alive
  <2> DEFINE f == Callback(reg', current, FALSE)
  <2>1. stack' = <<f>> /\ current' = current
    BY <1>1, <1>7
  <2>2. f \in Frame /\ Runs(f, reg', current, accepting) /\ Has(f) = 0
    BY <1>2, <1>3, <1>7, CallbackRuns
  <2> HIDE DEF f
  <2>3. Nested(<<f>>, reg', current, accepting) /\ Unsent(<<f>>) = 0
    BY <1>2, <2>2, Alone
  <2>4. Unsent(stack') \in Nat /\ Unsent(stack') + Has(Top) <= Unsent(stack) + 0
    BY <1>2, <2>1, <2>3
  <2> QED
    BY <1>1, <1>2, <1>5, <1>6, <2>1, <2>3, <2>4 DEF Onward
<1>8. CASE ~ (again /\ alive)
  <2>1. stack' = Tail(stack)
    BY <1>1, <1>8
  <2>2. stack' # <<>> => current' \in Fds
    BY <1>1, <1>2, <1>4, <2>1
  <2>3. Nested(stack', reg', current', accepting')
    BY <1>2, <2>1, <2>2, Settled
  <2>4. Unsent(stack') \in Nat /\ Unsent(stack') + Has(Top) <= Unsent(stack) + 0
    BY <1>2, <2>1
  <2> QED
    BY <1>2, <1>5, <1>6, <2>3, <2>4 DEF Onward
<1> QED
  BY <1>7, <1>8

LEMMA Answering ==
  ASSUME Called, NEW v, Answer(v)
  PROVE  Onward(0)
  BY Returning DEF Answer

(* f and the call it is made from. *)
LEMMA Calling ==
  ASSUME Called, NEW f \in Frame, Runs(f, reg', current, accepting), TailCall(f)
  PROVE  Onward(Has(f))
<1>1. stack' = <<f>> \o Tail(stack) /\ current' = current /\ accepting' = accepting
      /\ fate' = fate
  BY DEF TailCall
<1>2. /\ current \in Fds /\ Waiting(Tail(stack))
      /\ Unsent(stack) = Unsent(Tail(stack)) + Has(Top)
      /\ Unsent(stack) \in Nat /\ Unsent(Tail(stack)) \in Nat /\ Has(Top) \in Nat
  BY CalledIs
<1>3. /\ fate = "run" /\ accepting \in Fds \cup {NoFd}
      /\ Adding(reg', kern', current, accepting)
  BY DEF Called
<1>4. Nested(stack', reg', current', accepting')
  BY <1>1, <1>2, Pushed
<1>5. Unsent(stack') = Unsent(Tail(stack)) + Has(f)
  BY <1>1, <1>2, UnsentPushed DEF Waiting
<1>6. Has(f) \in Nat
  BY DEF Has
<1>7. /\ Unsent(stack') \in Nat /\ Unsent(stack) \in Nat /\ Has(Top) \in Nat
      /\ Unsent(stack') + Has(Top) <= Unsent(stack) + Has(f)
  BY <1>2, <1>5, <1>6
<1> QED
  BY <1>1, <1>2, <1>3, <1>4, <1>7 DEF Onward

(* The process ends in the middle of a call. *)
LEMMA Ending ==
  ASSUME Called, reg' = reg, fate' \in {"exit", "crash"},
         UNCHANGED <<stack, current, accepting>>
  PROVE  Onward(Has(Top))
<1>1. /\ current \in Fds /\ Unsent(stack) \in Nat /\ Has(Top) \in Nat
  BY CalledIs
<1>2. Unsent(stack') + Has(Top) <= Unsent(stack) + Has(Top)
  BY <1>1
<1> QED
  BY <1>1, <1>2 DEF Called, Onward

(* f goes on in its own place, below the call g that it makes. *)
LEMMA CallingAbove ==
  ASSUME Called, NEW f \in Frame, Waits(f), NEW g \in Frame,
         Runs(g, reg', current, accepting), Has(g) = 0,
         stack' = <<g>> \o (<<f>> \o Tail(stack)),
         current' = current, accepting' = accepting, fate' = fate
  PROVE  Onward(Has(f))
<1> DEFINE t == <<f>> \o Tail(stack)
<1>1. /\ current \in Fds /\ Waiting(Tail(stack))
      /\ Unsent(stack) = Unsent(Tail(stack)) + Has(Top)
      /\ Unsent(stack) \in Nat /\ Unsent(Tail(stack)) \in Nat /\ Has(Top) \in Nat
  BY CalledIs
<1>2. Tail(stack) \in Seq(Frame) /\ Len(Tail(stack)) \in Nat
      /\ \A i \in 1 .. Len(Tail(stack)) : Waits(Tail(stack)[i])
  BY <1>1 DEF Waiting
<1>3. /\ t \in Seq(Frame) /\ Len(t) = Len(Tail(stack)) + 1 /\ t[1] = f
      /\ \A i \in 1 .. Len(Tail(stack)) : t[i + 1] = Tail(stack)[i]
  BY <1>2, PushedIs
<1>4. Unsent(t) = Unsent(Tail(stack)) + Has(f)
  BY <1>2, UnsentPushed
<1> HIDE DEF t
<1> DEFINE u == <<g>> \o t
<1>5. Unsent(u) = Unsent(t) + 0
  BY <1>3, UnsentPushed
<1>6. Waiting(t)
  <2>1. ASSUME NEW i \in 1 .. Len(t) PROVE Waits(t[i])
    <3>1. CASE i = 1
      BY <1>3, <3>1
    <3>2. CASE i # 1
      <4>1. i - 1 \in 1 .. Len(Tail(stack)) /\ (i - 1) + 1 = i
        BY <1>2, <1>3, <3>2
      <4>2. t[i] = Tail(stack)[i - 1]
        BY <1>3, <4>1
      <4> QED
        BY <1>2, <4>1, <4>2
    <3> QED
      BY <3>1, <3>2
  <2> QED
    BY <1>3, <2>1 DEF Waiting
<1>7. Nested(u, reg', current, accepting)
  BY <1>1, <1>6, Pushed
<1>8. Has(f) \in Nat
  BY DEF Has
<1>9. /\ fate = "run" /\ accepting \in Fds \cup {NoFd}
      /\ Adding(reg', kern', current, accepting)
  BY DEF Called
<1>10. stack' = u
  BY DEF t
<1> HIDE DEF u
<1>11. /\ Unsent(stack') \in Nat /\ Unsent(stack) \in Nat /\ Has(Top) \in Nat
       /\ Unsent(stack') + Has(Top) <= Unsent(stack) + Has(f)
  <2>1. Unsent(t) \in Nat
    BY <1>1, <1>4, <1>8
  <2>2. Unsent(u) = Unsent(Tail(stack)) + Has(f)
    BY <1>4, <1>5, <2>1
  <2>3. Unsent(stack') = Unsent(Tail(stack)) + Has(f)
    BY <1>10, <2>2
  <2> QED
    BY <1>1, <1>8, <2>3
<1>12. Nested(stack', reg', current', accepting')
  BY <1>7, <1>10
<1> QED
  BY <1>1, <1>9, <1>11, <1>12 DEF Onward

-----------------------------------------------------------------------------
(* What the steps are made of.                                             *)

LEMMA StillCalled ==
  ASSUME IInv, stack # <<>>, fate = "run", reg' = reg, kern'.sock = kern.sock
  PROVE  Called
<1>1. Wired(reg, kern) /\ Adding(reg, kern, current, accepting)
      /\ Nested(stack, reg, current, accepting) /\ accepting \in Fds \cup {NoFd}
  BY DEF IInv, Scalars
<1>2. Wired(reg', kern')
  BY <1>1, Rewired
<1>3. Adding(reg', kern', current, accepting)
  BY <1>1 DEF Adding
<1> QED
  BY <1>1, <1>2, <1>3 DEF Called

(* evt_core_rm_fd, of any descriptor but the UDP writer. *)
LEMMA Removing ==
  ASSUME IInv, NEW p, Sound(p), NEW fd \in Fds, IsRegistered(reg, fd),
         reg.info[fd].cat # "udp-write", rm_fd(p, fd)
  PROVE  /\ Sound(pool') /\ kern' \in Kernels /\ kern'.rx = kern.rx
         /\ Wired(reg', kern') /\ Adding(reg', kern', current, accepting)
         /\ stack # <<>> /\ fate = "run" => Called
<1>1. /\ reg' = RmFd(reg, fd) /\ kern' = Close(kern, fd) /\ pool' = ForgetFd(p, fd)
      /\ kern \in Kernels /\ Wired(reg, kern) /\ Adding(reg, kern, current, accepting)
      /\ Nested(stack, reg, current, accepting) /\ accepting \in Fds \cup {NoFd}
  BY DEF rm_fd, IInv, Scalars
<1>2. Wired(reg', kern') /\ ~ IsRegistered(reg', fd) /\ SameBut(reg, reg', fd)
  BY <1>1, RmWired
<1>3. kern' \in Kernels /\ kern'.rx = kern.rx
      /\ \A g \in Fds \ {fd} : kern'.sock[g] = kern.sock[g]
  BY <1>1, Closing
<1>4. Sound(pool')
  BY <1>1, Forgotten
<1>5. Adding(reg', kern', current, accepting)
  BY <1>1, <1>2, <1>3 DEF Adding, SameBut
<1> QED
  BY <1>1, <1>2, <1>3, <1>4, <1>5 DEF Called

(* To call the callback of a descriptor that does not listen. *)
LEMMA CallbackCalled ==
  ASSUME Called, reg' = reg, NEW fd \in Fds, IsRegistered(reg, fd),
         reg.info[fd].cat # "tcp-listen", TailCall(Callback(reg, fd, TRUE))
  PROVE  Onward(0)
<1> DEFINE f == Callback(reg, fd, TRUE)
<1>1. Wired(reg', kern')
  BY DEF Called
<1>2. f \in Frame /\ Runs(f, reg', current, accepting) /\ Has(f) = 0
  BY <1>1, CallbackRuns
<1> HIDE DEF f
<1>3. Onward(Has(f))
  BY <1>2, Calling DEF f
<1> QED
  BY <1>2, <1>3

LEMMA NotifyRead ==
  ASSUME Called, reg' = reg, NEW p, Sound(p), Has(Top) = 0, notify_read(p)
  PROVE  Onward(0) /\ Sound(pool')
<1>1. CASE p.readWaiting = <<>>
  <2>1. pool' = p /\ Return(0)
    BY <1>1 DEF notify_read
  <2> QED
    BY <2>1, Returning
<1>2. CASE p.readWaiting # <<>>
  <2>1. pool' = PopWaiter(p)
    BY <1>2 DEF notify_read
  <2>2. Sound(pool') /\ Head(p.readWaiting) \in Fds \cup {Stale}
    BY <1>2, <2>1, WaiterPopped
  <2>3. PICK n \in IF Head(p.readWaiting) = Stale THEN Fds ELSE {Head(p.readWaiting)} :
               IF IsRegistered(reg, n) /\ reg.info[n].cat \in Readers
               THEN TailCall(Callback(reg, n, TRUE))
               ELSE /\ fate' = "exit"
                    /\ UNCHANGED <<stack, current, accepting>>
    BY <1>2 DEF notify_read
  <2>4. n \in Fds
    BY <2>2
  <2>5. CASE IsRegistered(reg, n) /\ reg.info[n].cat \in Readers
    <3>1. reg.info[n].cat # "tcp-listen"
      BY <2>5 DEF Readers
    <3> QED
      BY <2>2, <2>3, <2>4, <2>5, <3>1, CallbackCalled
  <2>6. CASE ~ (IsRegistered(reg, n) /\ reg.info[n].cat \in Readers)
    BY <2>2, <2>3, <2>6, Ending
  <2> QED
    BY <2>5, <2>6
<1> QED
  BY <1>1, <1>2

LEMMA OnStream ==
  ASSUME Called, reg' = reg, NEW fd \in Fds, NEW p, Sound(p), p.used[fd] # NoBuffer,
         on_stream(p, fd)
  PROVE  Onward(0) /\ Sound(pool')
<1>1. CASE pool' = mv_buffer_rtow(p, fd, UW) /\ TailCall(Callback(reg, UW, TRUE))
  <2>1. Sound(pool')
    BY <1>1, NumbersAre, ReadToWrite
  <2>2. UW \in Fds /\ IsRegistered(reg, UW) /\ reg.info[UW].cat # "tcp-listen"
    BY NumbersAre, WiredIs DEF Called
  <2> QED
    BY <1>1, <2>1, <2>2, CallbackCalled
<1>2. CASE pool' = mv_buffer_rtof(p, fd) /\ Answer(1)
  BY <1>2, ReadToFree, Answering
<1>3. CASE pool' = mv_buffer_rtof(p, fd) /\ Answer(0)
  BY <1>3, ReadToFree, Answering
<1> QED
  BY <1>1, <1>2, <1>3 DEF on_stream

LEMMA NaiveDatagram ==
  ASSUME Called, reg' = reg, NEW fd \in Fds, NEW p, Sound(p), p.used[fd] # NoBuffer,
         NaiveOnDatagram(p, fd)
  PROVE  Onward(0) /\ Sound(pool')
<1> DEFINE links == reg.list["tcp-write"]
<1>1. CASE links = <<>>
  <2>1. pool' = mv_buffer_wtof(p, fd) /\ Answer(1)
    BY <1>1 DEF NaiveOnDatagram
  <2> QED
    BY <2>1, WriteToFree, Answering
<1>2. CASE links # <<>>
  <2>1. pool' = mv_buffer_rtow(p, fd, links[1]) /\ TailCall(Callback(reg, links[1], TRUE))
    BY <1>2 DEF NaiveOnDatagram
  <2>2. Wired(reg, kern') /\ "tcp-write" \in Cats
    BY NamesAre DEF Called
  <2>3. 1 \in 1 .. Len(links)
    <3>1. links \in Seq(Fds)
      BY <2>2, WiredIs
    <3> QED
      BY <1>2, <3>1
  <2>4. links[1] \in Fds /\ IsRegistered(reg, links[1]) /\ reg.info[links[1]].cat = "tcp-write"
    BY <2>2, <2>3, Leads
  <2> HIDE DEF links
  <2> QED
    BY <2>1, <2>4, ReadToWrite, CallbackCalled
<1> QED
  BY <1>1, <1>2

(* The call of dup2 or lightning that a reader makes in its own place. *)
LEMMA LoopCalled ==
  ASSUME Called, reg' = reg, NEW f \in Frame, Waits(f), TailCall(f)
  PROVE  Onward(Has(f))
  BY Calling DEF Runs

LEMMA Dup2Datagram ==
  ASSUME Called, reg' = reg, NEW fd \in Fds, NEW p, Sound(p), p.used[fd] # NoBuffer,
         Dup2OnDatagram(p, fd)
  PROVE  Onward(0) /\ Sound(pool')
<1> DEFINE f == [pc |-> "dup2", fd |-> fd, bp |-> p.used[fd], i |-> 1, links |-> <<>>,
                 zero |-> Top.zero]
<1>1. pool' = p /\ TailCall(f)
  BY DEF Dup2OnDatagram
<1>2. p.used[fd] \in Buffers /\ <<>> \in Seq(Ports)
  BY SoundIs
<1>3. Top.zero \in BOOLEAN
  BY CalledIs DEF Frame
<1>4. f \in Frame /\ Waits(f) /\ Has(f) = 0
  BY <1>2, <1>3 DEF Frame, Waits, Loops, Has
<1> HIDE DEF f
<1>5. Onward(Has(f))
  BY <1>1, <1>4, LoopCalled
<1> QED
  BY <1>1, <1>4, <1>5

LEMMA LightningDatagram ==
  ASSUME Called, reg' = reg, NEW fd \in Fds, NEW p, Sound(p), p.used[fd] # NoBuffer,
         uniq_pkt_sent_id \in Nat, Has(Top) = 0, LightningOnDatagram(p, fd)
  PROVE  (Onward(0) \/ Onward(1)) /\ Sound(pool')
<1>1. CASE p.free # <<>> /\ HasApp(p, uniq_pkt_sent_id)
  <2>1. fate' = "exit" /\ pool' = p /\ UNCHANGED <<stack, current, accepting>>
    BY <1>1 DEF LightningOnDatagram
  <2> QED
    BY <2>1, Ending
<1>2. CASE ~ (p.free # <<>> /\ HasApp(p, uniq_pkt_sent_id))
  <2> DEFINE q   == IF p.free = <<>> THEN p
                    ELSE dup_buffer_toa(p, p.used[fd], uniq_pkt_sent_id)
             old == uniq_pkt_sent_id - NPorts
             Few == {<<>>} \cup {<<l>> : l \in Ports} \cup {<<g, h>> : g \in Ports, h \in Ports}
             f(links) == [pc |-> "lightning", fd |-> fd, bp |-> p.used[fd], i |-> 0,
                          links |-> links, zero |-> Top.zero]
  <2>1. /\ pool' = IF HasApp(q, old) THEN mv_buffer_atof(q, old) ELSE q
        /\ \E links \in Few : TailCall(f(links))
    BY <1>2 DEF LightningOnDatagram
  <2>2. p.used[fd] \in Buffers
    BY SoundIs
  <2>3. Sound(q)
    BY <1>2, <2>2, DupToApp
  <2>4. Sound(pool')
    <3> HIDE DEF q, old
    <3> QED
      BY <2>1, <2>3, AppToFree
  <2>5. PICK links \in Few : TailCall(f(links))
    BY <2>1
  <2>6. links \in Seq(Ports)
    <3>1. <<>> \in Seq(Ports) /\ (\A l \in Ports : <<l>> \in Seq(Ports))
          /\ \A g, h \in Ports : <<g, h>> \in Seq(Ports)
      OBVIOUS
    <3>2. links = <<>> \/ (\E l \in Ports : links = <<l>>)
          \/ \E g, h \in Ports : links = <<g, h>>
      OBVIOUS
    <3> HIDE DEF Few, f, q, old
    <3>3. CASE links = <<>>
      BY <3>1, <3>3
    <3>4. CASE \E l \in Ports : links = <<l>>
      BY <3>1, <3>4
    <3>5. CASE \E g, h \in Ports : links = <<g, h>>
      BY <3>1, <3>5
    <3> QED
      BY <3>2, <3>3, <3>4, <3>5
  <2>7. Top.zero \in BOOLEAN
    BY CalledIs DEF Frame
  <2>8. f(links) \in Frame /\ Waits(f(links)) /\ Has(f(links)) = 1
    BY <2>2, <2>6, <2>7 DEF Frame, Waits, Loops, Has
  <2> HIDE DEF f, Few, q, old
  <2>9. Onward(Has(f(links)))
    BY <2>5, <2>8, LoopCalled
  <2> QED
    BY <2>4, <2>8, <2>9
<1> QED
  BY <1>1, <1>2

LEMMA OnDatagram ==
  ASSUME Called, reg' = reg, NEW fd \in Fds, NEW p, Sound(p), p.used[fd] # NoBuffer,
         uniq_pkt_sent_id \in Nat, Has(Top) = 0, algo \in Algos, on_datagram(p, fd)
  PROVE  (Onward(0) \/ Onward(1)) /\ Sound(pool')
<1>1. algo = "naive" \/ algo = "dup2" \/ algo = "lightning"
  BY ProxyAssumption
<1>2. CASE algo = "naive"
  BY <1>2, NaiveDatagram DEF on_datagram
<1>3. CASE algo = "dup2"
  BY <1>3, Dup2Datagram DEF on_datagram
<1>4. CASE algo = "lightning"
  BY <1>4, LightningDatagram DEF on_datagram
<1> QED
  BY <1>1, <1>2, <1>3, <1>4

-----------------------------------------------------------------------------
(* The steps.                                                              *)

LEMMA IInvIs ==
  ASSUME IInv
  PROVE  /\ algo \in Algos /\ uniq_pkt_sent_id \in Nat \ {0} /\ is_rdy \in BOOLEAN
         /\ current \in Fds \cup {NoFd} /\ accepting \in Fds \cup {NoFd}
         /\ left \in Nat /\ stamp \in Nat /\ sent \in [Fds -> Packets]
         /\ fate \in {"run", "exit", "dangling", "crash"}
         /\ Sound(pool) /\ kern \in Kernels /\ Wired(reg, kern)
         /\ batch \in [err : SUBSET Events, cb : SUBSET Events]
         /\ Adding(reg, kern, current, accepting) /\ Nested(stack, reg, current, accepting)
         /\ kern.rx[UdpSock] \in Nat /\ MaxPackets \in Nat
         /\ stamp + left + kern.rx[UdpSock] <= MaxPackets
         /\ uniq_pkt_sent_id + Unsent(stack) <= stamp + 1
  BY KernelIs, NumbersAre DEF IInv, Scalars

(* The callback that runs is of the category of its descriptor. *)
LEMMA RunningIs ==
  ASSUME IInv, NEW pc \in Cats, Running(pc)
  PROVE  /\ stack # <<>> /\ fate = "run" /\ Top.pc = pc /\ Top.fd \in Fds
         /\ Has(Top) = 0 /\ IsRegistered(reg, Top.fd) /\ reg.info[Top.fd].cat = pc
         /\ kern.sock[Top.fd] \in Files /\ current \in Fds
         /\ pc = "tcp-listen" => accepting = NoFd /\ Top.fd = current
<1>1. stack # <<>> /\ fate = "run" /\ Top.pc = pc
  BY DEF Running, Top
<1>2. Top \in Frame /\ Runs(Top, reg, current, accepting) /\ current \in Fds
  BY <1>1, IInvIs, Popped DEF Top
<1>3. Top.fd \in Fds
  BY <1>2 DEF Frame
<1>4. Top.pc \notin Loops /\ Has(Top) = 0
  BY <1>1, NamesAre DEF Has, Loops
<1>5. IsRegistered(reg, Top.fd) /\ reg.info[Top.fd].cat = pc
      /\ (pc = "tcp-listen" => accepting = NoFd /\ Top.fd = current)
  BY <1>1, <1>2, <1>4 DEF Runs, Waits
<1>6. kern.sock[Top.fd] \in Files
  BY <1>3, IInvIs, KernelIs
<1> QED
  BY <1>1, <1>2, <1>3, <1>4, <1>5, <1>6

LEMMA LoopRunningIs ==
  ASSUME IInv, NEW pc \in Loops, Running(pc)
  PROVE  /\ stack # <<>> /\ fate = "run" /\ Top.pc = pc /\ Top \in Frame /\ Top.fd \in Fds
         /\ Waits(Top) /\ Top.bp \in Buffers /\ current \in Fds
<1>1. stack # <<>> /\ fate = "run" /\ Top.pc = pc
  BY DEF Running, Top
<1>2. Top \in Frame /\ Runs(Top, reg, current, accepting) /\ current \in Fds
  BY <1>1, IInvIs, Popped DEF Top
<1>3. Waits(Top)
  BY <1>1, <1>2, NamesAre DEF Runs
<1> QED
  BY <1>1, <1>2, <1>3 DEF Waits, Frame

(* A call makes a step that is in order. *)
LEMMA Kept ==
  ASSUME IInv, NEW n \in {0, 1}, Onward(n), Sound(pool'), kern' \in Kernels,
         Wired(reg', kern'), batch' = batch, algo' = algo, is_rdy' \in BOOLEAN,
         sent' \in [Fds -> Packets], left' = left, stamp' \in Nat,
         uniq_pkt_sent_id' \in Nat \ {0},
         stamp' + kern'.rx[UdpSock] <= stamp + kern.rx[UdpSock],
         uniq_pkt_sent_id' + n - Has(Top) <= uniq_pkt_sent_id + (stamp' - stamp)
  PROVE  IInv'
<1>1. kern'.rx[UdpSock] \in Nat
  BY KernelIs
<1>2. stamp' + left' + kern'.rx[UdpSock] <= MaxPackets
  BY <1>1, IInvIs
<1>3. /\ Unsent(stack') \in Nat /\ Unsent(stack) \in Nat /\ Has(Top) \in Nat
      /\ Unsent(stack') + Has(Top) <= Unsent(stack) + n
  BY DEF Onward
<1>4. uniq_pkt_sent_id' + Unsent(stack') <= stamp' + 1
  <2>1. /\ uniq_pkt_sent_id \in Nat /\ stamp \in Nat
        /\ uniq_pkt_sent_id + Unsent(stack) <= stamp + 1
    BY IInvIs
  <2> QED
    BY <1>3, <2>1
<1>5. /\ Nested(stack', reg', current', accepting') /\ Adding(reg', kern', current', accepting')
      /\ current' \in Fds \cup {NoFd} /\ accepting' \in Fds \cup {NoFd}
      /\ fate' \in {"run", "exit", "dangling", "crash"}
  BY DEF Onward
<1>6. Scalars'
  BY <1>5, IInvIs DEF Scalars
<1> QED
  BY <1>2, <1>4, <1>5, <1>6, IInvIs DEF IInv

LEMMA TcpReadKeeps == ASSUME IInv, TcpRead PROVE IInv'
<1> DEFINE fd == Top.fd
           s  == SockOf(fd)
           p  == get_read_buffer(pool, fd)
           b  == p.used[fd]
<1>1. /\ stack # <<>> /\ fate = "run" /\ fd \in Fds /\ Has(Top) = 0
      /\ IsRegistered(reg, fd) /\ reg.info[fd].cat = "tcp-read" /\ s \in Files
  BY NamesAre, RunningIs DEF TcpRead, SockOf
<1>2. /\ algo' = algo /\ uniq_pkt_sent_id' = uniq_pkt_sent_id /\ batch' = batch
      /\ is_rdy' = is_rdy /\ left' = left /\ sent' = sent /\ stamp' = stamp
  BY DEF TcpRead, ReadVars, app_ctx
<1>3. Sound(p)
  BY <1>1, IInvIs, GetRead
<1>4. \/ UNCHANGED <<reg, kern>> /\ pool' = p /\ Answer(1)
      \/ rm_fd(mv_buffer_rtof(p, fd), fd) /\ Answer(1)
      \/ /\ b # NoBuffer /\ kern.rx[s] > 0 /\ kern' = Consume(s) /\ UNCHANGED reg
         /\ on_stream(FillBuffer(p, fd, Cell), fd)
      \/ b # NoBuffer /\ UNCHANGED <<reg, kern>> /\ on_stream(p, fd)
  BY DEF TcpRead
<1> SUFFICES /\ Onward(0) /\ Sound(pool') /\ kern' \in Kernels /\ Wired(reg', kern')
             /\ kern'.rx[UdpSock] <= kern.rx[UdpSock]
  <2>1. kern'.rx[UdpSock] \in Nat
    BY KernelIs
  <2>2. stamp + kern'.rx[UdpSock] <= stamp + kern.rx[UdpSock]
    BY <2>1, IInvIs
  <2>3. uniq_pkt_sent_id + 0 - 0 <= uniq_pkt_sent_id + (stamp - stamp)
    BY IInvIs
  <2> QED
    BY <1>1, <1>2, <2>2, <2>3, IInvIs, Kept
<1> HIDE DEF fd, s, p, b
<1>5. kern.rx[UdpSock] \in Nat
  BY IInvIs
<1>6. CASE UNCHANGED <<reg, kern>> /\ pool' = p /\ Answer(1)
  <2>1. Called
    BY <1>1, <1>6, StillCalled
  <2> QED
    BY <1>3, <1>5, <1>6, <2>1, IInvIs, Answering
<1>7. CASE rm_fd(mv_buffer_rtof(p, fd), fd) /\ Answer(1)
  <2>1. Sound(mv_buffer_rtof(p, fd))
    BY <1>1, <1>3, ReadToFree
  <2>2. /\ Called /\ Sound(pool') /\ kern' \in Kernels /\ kern'.rx = kern.rx
        /\ Wired(reg', kern')
    BY <1>1, <1>7, <2>1, Removing
  <2> QED
    BY <1>5, <1>7, <2>2, Answering
<1>8. CASE /\ b # NoBuffer /\ kern.rx[s] > 0 /\ kern' = Consume(s) /\ UNCHANGED reg
           /\ on_stream(FillBuffer(p, fd, Cell), fd)
  <2>1. kern' \in Kernels /\ kern'.sock = kern.sock
        /\ kern'.rx[UdpSock] <= kern.rx[UdpSock]
    BY <1>1, <1>8, IInvIs, Consuming
  <2>2. Called
    BY <1>1, <1>8, <2>1, StillCalled
  <2>3. Cell \in Packets
    BY ProxyAssumption DEF Cell
  <2>4. Sound(FillBuffer(p, fd, Cell)) /\ FillBuffer(p, fd, Cell).used = p.used
    BY <1>1, <1>3, <1>8, <2>3, Filled DEF b
  <2>5. Onward(0) /\ Sound(pool')
    BY <1>1, <1>8, <2>2, <2>4, OnStream DEF b
  <2> QED
    BY <2>1, <2>2, <2>5 DEF Called
<1>9. CASE b # NoBuffer /\ UNCHANGED <<reg, kern>> /\ on_stream(p, fd)
  <2>1. Called
    BY <1>1, <1>9, StillCalled
  <2>2. Onward(0) /\ Sound(pool')
    BY <1>1, <1>3, <1>9, <2>1, OnStream DEF b
  <2> QED
    BY <1>5, <1>9, <2>2, IInvIs
<1> QED
  BY <1>4, <1>6, <1>7, <1>8, <1>9

LEMMA UdpReadKeeps == ASSUME IInv, UdpRead PROVE IInv'
<1> DEFINE fd == Top.fd
           p  == get_read_buffer(pool, fd)
           b  == p.used[fd]
<1>1. /\ stack # <<>> /\ fate = "run" /\ fd \in Fds /\ Has(Top) = 0
  BY NamesAre, RunningIs DEF UdpRead
<1>2. /\ algo' = algo /\ uniq_pkt_sent_id' = uniq_pkt_sent_id /\ batch' = batch
      /\ is_rdy' = is_rdy /\ left' = left /\ sent' = sent /\ reg' = reg
  BY DEF UdpRead, ReadVars, app_ctx
<1>3. Sound(p)
  BY <1>1, IInvIs, GetRead
<1>4. \/ kern' = kern /\ stamp' = stamp /\ pool' = p /\ Answer(1)
      \/ kern' = kern /\ stamp' = stamp /\ pool' = mv_buffer_rtof(p, fd) /\ Answer(0)
      \/ /\ kern.rx[UdpSock] > 0 /\ kern' = Consume(UdpSock) /\ UNCHANGED stamp
         /\ pool' = p /\ Answer(1)
      \/ /\ kern.rx[UdpSock] > 0 /\ kern' = Consume(UdpSock) /\ UNCHANGED stamp
         /\ pool' = mv_buffer_rtof(p, fd) /\ Answer(0)
      \/ /\ b # NoBuffer /\ kern.rx[UdpSock] > 0 /\ kern' = Consume(UdpSock)
         /\ stamp' = stamp + 1 /\ on_datagram(FillBuffer(p, fd, stamp + 1), fd)
  BY DEF UdpRead
<1> HIDE DEF fd, p, b
<1>5. /\ kern.rx[UdpSock] \in Nat /\ stamp \in Nat /\ uniq_pkt_sent_id \in Nat \ {0}
      /\ left \in Nat /\ MaxPackets \in Nat /\ stamp + left + kern.rx[UdpSock] <= MaxPackets
      /\ kern \in Kernels /\ Wired(reg, kern) /\ is_rdy \in BOOLEAN
      /\ sent \in [Fds -> Packets] /\ algo \in Algos
  BY IInvIs
(* What is left to show when nothing is read. *)
<1>6. ASSUME stamp' = stamp, kern' \in Kernels, kern'.sock = kern.sock,
             kern'.rx[UdpSock] <= kern.rx[UdpSock],
             Answer(0) \/ Answer(1), Sound(pool')
      PROVE  IInv'
  <2>2. Called
    BY <1>1, <1>2, <1>6, StillCalled
  <2>3. Onward(0) /\ Wired(reg', kern')
    BY <1>6, <2>2, Answering DEF Called
  <2>4. stamp' + kern'.rx[UdpSock] <= stamp + kern.rx[UdpSock]
        /\ uniq_pkt_sent_id + 0 - 0 <= uniq_pkt_sent_id + (stamp' - stamp)
    <3>1. kern'.rx[UdpSock] \in Nat
      BY <1>6, KernelIs
    <3> QED
      BY <1>5, <1>6, <3>1
  <2> QED
    BY <1>1, <1>2, <1>5, <1>6, <2>3, <2>4, Kept
<1>a. Sound(mv_buffer_rtof(p, fd))
  BY <1>1, <1>3, ReadToFree
<1>b. kern.rx[UdpSock] > 0 /\ kern' = Consume(UdpSock) =>
        /\ kern' \in Kernels /\ kern'.sock = kern.sock
        /\ kern'.rx[UdpSock] <= kern.rx[UdpSock]
  BY <1>5, FilesAre, Consuming
<1>7. CASE kern' = kern /\ stamp' = stamp /\ pool' = p /\ Answer(1)
  BY <1>3, <1>5, <1>6, <1>7
<1>8. CASE kern' = kern /\ stamp' = stamp /\ pool' = mv_buffer_rtof(p, fd) /\ Answer(0)
  BY <1>5, <1>6, <1>8, <1>a
<1>9. CASE /\ kern.rx[UdpSock] > 0 /\ kern' = Consume(UdpSock) /\ UNCHANGED stamp
           /\ pool' = p /\ Answer(1)
  BY <1>3, <1>6, <1>9, <1>b
<1>10. CASE /\ kern.rx[UdpSock] > 0 /\ kern' = Consume(UdpSock) /\ UNCHANGED stamp
            /\ pool' = mv_buffer_rtof(p, fd) /\ Answer(0)
  BY <1>6, <1>10, <1>a, <1>b
<1>11. CASE /\ b # NoBuffer /\ kern.rx[UdpSock] > 0 /\ kern' = Consume(UdpSock)
            /\ stamp' = stamp + 1 /\ on_datagram(FillBuffer(p, fd, stamp + 1), fd)
  <2>1. kern' \in Kernels /\ kern'.sock = kern.sock
        /\ kern'.rx[UdpSock] = kern.rx[UdpSock] - 1
    BY <1>5, <1>11, FilesAre, Consuming
  <2>2. Called
    BY <1>1, <1>2, <2>1, StillCalled
  <2>3. stamp + 1 \in Packets
    BY <1>5, <1>11, ProxyAssumption
  <2>4. Sound(FillBuffer(p, fd, stamp + 1)) /\ FillBuffer(p, fd, stamp + 1).used = p.used
    BY <1>1, <1>3, <1>11, <2>3, Filled DEF b
  <2>5. (Onward(0) \/ Onward(1)) /\ Sound(pool')
    BY <1>1, <1>2, <1>5, <1>11, <2>2, <2>4, OnDatagram DEF b
  <2>6. PICK n \in {0, 1} : Onward(n)
    BY <2>5
  <2>7. Wired(reg', kern')
    BY <2>2 DEF Called
  <2>8. /\ stamp' \in Nat /\ stamp' + kern'.rx[UdpSock] <= stamp + kern.rx[UdpSock]
        /\ uniq_pkt_sent_id + n - 0 <= uniq_pkt_sent_id + (stamp' - stamp)
    BY <1>5, <1>11, <2>1
  <2> QED
    BY <1>1, <1>2, <1>5, <2>1, <2>5, <2>6, <2>7, <2>8, Kept
<1> QED
  BY <1>4, <1>7, <1>8, <1>9, <1>10, <1>11

(* A call makes a step that neither reads a datagram nor ends one. *)
LEMMA KeptPlain ==
  ASSUME IInv, Onward(0), Sound(pool'), kern' \in Kernels, Wired(reg', kern'),
         batch' = batch, algo' = algo, is_rdy' \in BOOLEAN, sent' \in [Fds -> Packets],
         left' = left, stamp' = stamp, uniq_pkt_sent_id' = uniq_pkt_sent_id,
         kern'.rx = kern.rx
  PROVE  IInv'
<1>1. /\ uniq_pkt_sent_id \in Nat \ {0} /\ stamp \in Nat /\ kern.rx[UdpSock] \in Nat
  BY IInvIs
<1>2. Has(Top) \in Nat
  BY DEF Has
<1>3. /\ stamp' + kern'.rx[UdpSock] <= stamp + kern.rx[UdpSock]
      /\ uniq_pkt_sent_id' + 0 - Has(Top) <= uniq_pkt_sent_id + (stamp' - stamp)
  BY <1>1, <1>2
<1> QED
  BY <1>1, <1>3, Kept

LEMMA TcpWriteKeeps == ASSUME IInv, TcpWrite PROVE IInv'
<1> DEFINE fd == Top.fd
           s  == SockOf(fd)
           p  == get_write_buffer(pool, fd)
           b  == p.used[fd]
<1>1. /\ stack # <<>> /\ fate = "run" /\ fd \in Fds /\ Has(Top) = 0
      /\ IsRegistered(reg, fd) /\ reg.info[fd].cat = "tcp-write" /\ s \in Files
  BY NamesAre, RunningIs DEF TcpWrite, SockOf
<1>2. /\ algo' = algo /\ uniq_pkt_sent_id' = uniq_pkt_sent_id /\ batch' = batch
      /\ left' = left /\ stamp' = stamp
      /\ is_rdy' = (is_rdy \/ Len(reg.list["tcp-write"]) >= NPorts)
  BY DEF TcpWrite, WriteVars, app_ctx
<1>3. is_rdy' \in BOOLEAN
  BY <1>2, IInvIs
<1>4. Sound(p)
  BY <1>1, IInvIs, GetWrite
<1>5. \/ UNCHANGED <<reg, kern, sent>> /\ pool' = p /\ Answer(1)
      \/ UNCHANGED <<reg, kern, sent>> /\ notify_read(mv_buffer_wtof(p, fd))
      \/ /\ b # NoBuffer /\ p.pkt[b] # Blank /\ sent' = [sent EXCEPT ![fd] = p.pkt[b]]
         /\ UNCHANGED <<reg, kern>> /\ notify_read(mv_buffer_wtof(p, fd))
      \/ UNCHANGED <<reg, sent>> /\ kern' = FillUp(s) /\ pool' = p /\ Answer(1)
      \/ rm_fd(mv_buffer_wtof(p, fd), fd) /\ Answer(1) /\ UNCHANGED sent
  BY DEF TcpWrite
<1> HIDE DEF fd, s, p, b
<1>6. Sound(mv_buffer_wtof(p, fd))
  BY <1>1, <1>4, WriteToFree
<1>7. kern \in Kernels /\ Wired(reg, kern) /\ sent \in [Fds -> Packets]
  BY IInvIs
<1>8. CASE UNCHANGED <<reg, kern, sent>> /\ pool' = p /\ Answer(1)
  <2>1. Called
    BY <1>1, <1>8, StillCalled
  <2>2. Onward(0)
    BY <1>8, <2>1, Answering
  <2> QED
    BY <1>2, <1>3, <1>4, <1>7, <1>8, <2>2, KeptPlain
<1>9. CASE UNCHANGED <<reg, kern, sent>> /\ notify_read(mv_buffer_wtof(p, fd))
  <2>1. Called
    BY <1>1, <1>9, StillCalled
  <2>2. Onward(0) /\ Sound(pool')
    BY <1>1, <1>6, <1>9, <2>1, NotifyRead
  <2> QED
    BY <1>2, <1>3, <1>7, <1>9, <2>2, KeptPlain
<1>10. CASE /\ b # NoBuffer /\ p.pkt[b] # Blank /\ sent' = [sent EXCEPT ![fd] = p.pkt[b]]
            /\ UNCHANGED <<reg, kern>> /\ notify_read(mv_buffer_wtof(p, fd))
  <2>1. Called
    BY <1>1, <1>10, StillCalled
  <2>2. Onward(0) /\ Sound(pool')
    BY <1>1, <1>6, <1>10, <2>1, NotifyRead
  <2>3. p.pkt[b] \in Packets
    BY <1>1, <1>4, <1>10, SoundIs DEF b
  <2>4. sent' \in [Fds -> Packets]
    BY <1>7, <1>10, <2>3
  <2> QED
    BY <1>2, <1>3, <1>7, <1>10, <2>2, <2>4, KeptPlain
<1>11. CASE UNCHANGED <<reg, sent>> /\ kern' = FillUp(s) /\ pool' = p /\ Answer(1)
  <2>1. kern' \in Kernels /\ kern'.sock = kern.sock /\ kern'.rx = kern.rx
    BY <1>1, <1>7, <1>11, Filling
  <2>2. Called
    BY <1>1, <1>11, <2>1, StillCalled
  <2>3. Onward(0) /\ Wired(reg', kern')
    BY <1>11, <2>2, Answering DEF Called
  <2> QED
    BY <1>2, <1>3, <1>4, <1>7, <1>11, <2>1, <2>3, KeptPlain
<1>12. CASE rm_fd(mv_buffer_wtof(p, fd), fd) /\ Answer(1) /\ UNCHANGED sent
  <2>1. /\ Called /\ Sound(pool') /\ kern' \in Kernels /\ kern'.rx = kern.rx
        /\ Wired(reg', kern')
    BY <1>1, <1>6, <1>12, Removing
  <2>2. Onward(0)
    BY <1>12, <2>1, Answering
  <2> QED
    BY <1>2, <1>3, <1>7, <1>12, <2>1, <2>2, KeptPlain
<1> QED
  BY <1>5, <1>8, <1>9, <1>10, <1>11, <1>12

LEMMA UdpWriteKeeps == ASSUME IInv, UdpWrite PROVE IInv'
<1> DEFINE fd == Top.fd
           p  == get_write_buffer(pool, fd)
           b  == p.used[fd]
<1>1. stack # <<>> /\ fate = "run" /\ fd \in Fds /\ Has(Top) = 0
  BY NamesAre, RunningIs DEF UdpWrite
<1>2. /\ algo' = algo /\ uniq_pkt_sent_id' = uniq_pkt_sent_id /\ batch' = batch
      /\ left' = left /\ stamp' = stamp /\ is_rdy' = is_rdy /\ reg' = reg
  BY DEF UdpWrite, WriteVars, app_ctx
<1>3. Sound(p)
  BY <1>1, IInvIs, GetWrite
<1>4. \/ UNCHANGED <<kern, sent>> /\ pool' = p /\ Answer(1)
      \/ /\ b # NoBuffer /\ p.pkt[b] # Blank /\ sent' = [sent EXCEPT ![fd] = p.pkt[b]]
         /\ UNCHANGED kern /\ notify_read(mv_buffer_wtof(p, fd))
      \/ UNCHANGED sent /\ kern' = FillUp(UdpSock) /\ pool' = p /\ Answer(1)
      \/ UNCHANGED <<kern, sent>> /\ pool' = mv_buffer_wtof(p, fd) /\ Answer(0)
  BY DEF UdpWrite
<1> HIDE DEF fd, p, b
<1>5. Sound(mv_buffer_wtof(p, fd))
  BY <1>1, <1>3, WriteToFree
<1>6. kern \in Kernels /\ Wired(reg, kern) /\ sent \in [Fds -> Packets] /\ is_rdy \in BOOLEAN
  BY IInvIs
<1>7. kern' = kern => Called
  BY <1>1, <1>2, StillCalled
<1>8. CASE UNCHANGED <<kern, sent>> /\ pool' = p /\ Answer(1)
  <2>1. Onward(0)
    BY <1>7, <1>8, Answering
  <2> QED
    BY <1>2, <1>3, <1>6, <1>8, <2>1, KeptPlain
<1>9. CASE /\ b # NoBuffer /\ p.pkt[b] # Blank /\ sent' = [sent EXCEPT ![fd] = p.pkt[b]]
           /\ UNCHANGED kern /\ notify_read(mv_buffer_wtof(p, fd))
  <2>1. Onward(0) /\ Sound(pool')
    BY <1>1, <1>2, <1>5, <1>7, <1>9, NotifyRead
  <2>2. p.pkt[b] \in Packets
    BY <1>1, <1>3, <1>9, SoundIs DEF b
  <2>3. sent' \in [Fds -> Packets]
    BY <1>6, <1>9, <2>2
  <2> QED
    BY <1>2, <1>6, <1>9, <2>1, <2>3, KeptPlain
<1>10. CASE UNCHANGED sent /\ kern' = FillUp(UdpSock) /\ pool' = p /\ Answer(1)
  <2>1. kern' \in Kernels /\ kern'.sock = kern.sock /\ kern'.rx = kern.rx
    BY <1>6, <1>10, FilesAre, Filling
  <2>2. Called
    BY <1>1, <1>2, <2>1, StillCalled
  <2>3. Onward(0) /\ Wired(reg', kern')
    BY <1>10, <2>2, Answering DEF Called
  <2> QED
    BY <1>2, <1>3, <1>6, <1>10, <2>1, <2>3, KeptPlain
<1>11. CASE UNCHANGED <<kern, sent>> /\ pool' = mv_buffer_wtof(p, fd) /\ Answer(0)
  <2>1. Onward(0)
    BY <1>7, <1>11, Answering
  <2> QED
    BY <1>2, <1>5, <1>6, <1>11, <2>1, KeptPlain
<1> QED
  BY <1>4, <1>8, <1>9, <1>10, <1>11

(* A call of a writer, made from a loop over the links. *)
LEMMA WriterCalled ==
  ASSUME Called, reg' = reg, NEW f \in Frame, Waits(f), NEW to \in Fds,
         IsRegistered(reg, to), reg.info[to].cat = "tcp-write",
         stack' = <<Callback(reg, to, FALSE)>> \o (<<f>> \o Tail(stack)),
         current' = current, accepting' = accepting, fate' = fate
  PROVE  Onward(Has(f))
<1> DEFINE g == Callback(reg, to, FALSE)
<1>1. Wired(reg', kern')
  BY DEF Called
<1>2. g \in Frame /\ Runs(g, reg', current, accepting) /\ Has(g) = 0
  BY <1>1, CallbackRuns
<1>3. stack' = <<g>> \o (<<f>> \o Tail(stack))
  OBVIOUS
<1> HIDE DEF g
<1> QED
  BY <1>2, <1>3, CallingAbove

LEMMA Dup2LinkKeeps == ASSUME IInv, Dup2Link PROVE IInv'
<1> DEFINE to == reg.list["tcp-write"][Top.i]
           f  == [Top EXCEPT !.i = Top.i + 1]
<1>1. /\ stack # <<>> /\ fate = "run" /\ Top.pc = "dup2" /\ Top \in Frame
      /\ Waits(Top) /\ Top.bp \in Buffers
  BY LoopRunningIs DEF Dup2Link, Loops
<1>2. /\ algo' = algo /\ uniq_pkt_sent_id' = uniq_pkt_sent_id /\ batch' = batch
      /\ left' = left /\ stamp' = stamp /\ is_rdy' = is_rdy /\ reg' = reg /\ kern' = kern
      /\ sent' = sent /\ current' = current /\ accepting' = accepting
  BY DEF Dup2Link, app_ctx
<1>3. /\ kern \in Kernels /\ Wired(reg, kern) /\ sent \in [Fds -> Packets]
      /\ is_rdy \in BOOLEAN /\ Sound(pool)
  BY IInvIs
<1>4. Called
  BY <1>1, <1>2, StillCalled
<1>5. Has(Top) = 0
  BY <1>1 DEF Has
<1> SUFFICES Onward(0) /\ Sound(pool')
  BY <1>2, <1>3, KeptPlain
<1>6. CASE pool.free = <<>>
  <2>1. fate' = "crash" /\ UNCHANGED <<pool, stack>>
    BY <1>6 DEF Dup2Link
  <2>2. Onward(Has(Top))
    BY <1>2, <1>4, <2>1, Ending
  <2> QED
    BY <1>3, <1>5, <2>1, <2>2
<1>7. CASE pool.free # <<>>
  <2>1. /\ pool' = dup_buffer_tow(pool, Top.bp, to) /\ fate' = fate
        /\ stack' = <<Callback(reg, to, FALSE), f>> \o Tail(stack)
        /\ Top.i <= Len(reg.list["tcp-write"])
    BY <1>7 DEF Dup2Link
  <2>2. Top.i \in Nat /\ Top.i > 0
    BY <1>1 DEF Waits, Frame
  <2>3. Top.i \in 1 .. Len(reg.list["tcp-write"])
    <3>1. reg.list["tcp-write"] \in Seq(Fds)
      BY <1>3, NamesAre, WiredIs
    <3> QED
      BY <2>1, <2>2, <3>1
  <2>4. to \in Fds /\ IsRegistered(reg, to) /\ reg.info[to].cat = "tcp-write"
    BY <1>3, <2>3, NamesAre, Leads
  <2>5. f \in Frame /\ f.pc = Top.pc /\ f.bp = Top.bp /\ f.i = Top.i + 1
    BY <1>1, <2>2 DEF Frame
  <2>6. Waits(f) /\ Has(f) = 0
    BY <1>1, <2>2, <2>5 DEF Waits, Has
  <2>7. stack' = <<Callback(reg, to, FALSE)>> \o (<<f>> \o Tail(stack))
    <3> DEFINE g == Callback(reg, to, FALSE)
    <3>1. g \in Frame
      BY <1>3, <2>4, CallbackRuns
    <3>2. Tail(stack) \in Seq(Frame)
      BY <1>4, CalledIs DEF Waiting
    <3> HIDE DEF g, f, to
    <3>3. <<g, f>> \o Tail(stack) = <<g>> \o (<<f>> \o Tail(stack))
      BY <2>5, <3>1, <3>2, TwoPushed
    <3> QED
      BY <2>1, <3>3 DEF g
  <2> HIDE DEF f, to
  <2>8. Onward(Has(f))
    BY <1>2, <1>4, <2>1, <2>4, <2>5, <2>6, <2>7, WriterCalled
  <2>9. Sound(pool')
    BY <1>1, <1>3, <1>7, <2>1, <2>4, DupToWrite
  <2> QED
    BY <2>6, <2>8, <2>9
<1> QED
  BY <1>6, <1>7

LEMMA Dup2DoneKeeps == ASSUME IInv, Dup2Done PROVE IInv'
<1>1. stack # <<>> /\ fate = "run" /\ Top.fd \in Fds
  BY LoopRunningIs DEF Dup2Done, Loops
<1>2. /\ algo' = algo /\ uniq_pkt_sent_id' = uniq_pkt_sent_id /\ batch' = batch
      /\ left' = left /\ stamp' = stamp /\ is_rdy' = is_rdy /\ reg' = reg /\ kern' = kern
      /\ sent' = sent /\ pool' = mv_buffer_rtof(pool, Top.fd) /\ Answer(0)
  BY DEF Dup2Done, app_ctx
<1>3. /\ kern \in Kernels /\ Wired(reg, kern) /\ sent \in [Fds -> Packets]
      /\ is_rdy \in BOOLEAN /\ Sound(pool)
  BY IInvIs
<1>4. Called
  BY <1>1, <1>2, StillCalled
<1>5. Onward(0)
  BY <1>2, <1>4, Answering
<1>6. Sound(pool')
  BY <1>1, <1>2, <1>3, ReadToFree
<1> QED
  BY <1>2, <1>3, <1>5, <1>6, KeptPlain

LEMMA LightningSendKeeps == ASSUME IInv, LightningSend PROVE IInv'
<1> DEFINE to == FromUrl(reg, <<"tcp-write", Head(Top.links)>>)
           f  == [Top EXCEPT !.links = Tail(Top.links)]
<1>1. /\ stack # <<>> /\ fate = "run" /\ Top.pc = "lightning" /\ Top \in Frame
      /\ Waits(Top) /\ Top.bp \in Buffers
  BY LoopRunningIs DEF LightningSend, Loops
<1>2. /\ algo' = algo /\ uniq_pkt_sent_id' = uniq_pkt_sent_id /\ batch' = batch
      /\ left' = left /\ stamp' = stamp /\ is_rdy' = is_rdy /\ reg' = reg /\ kern' = kern
      /\ sent' = sent /\ current' = current /\ accepting' = accepting
  BY DEF LightningSend, app_ctx
<1>3. /\ kern \in Kernels /\ Wired(reg, kern) /\ sent \in [Fds -> Packets]
      /\ is_rdy \in BOOLEAN /\ Sound(pool) /\ algo \in Algos
      /\ uniq_pkt_sent_id \in Nat \ {0} /\ stamp \in Nat /\ kern.rx[UdpSock] \in Nat
  BY IInvIs
<1>4. Called
  BY <1>1, <1>2, StillCalled
<1>5. Has(Top) = 1
  BY <1>1 DEF Has
<1> SUFFICES Onward(1) /\ Sound(pool')
  <2>1. /\ stamp' + kern'.rx[UdpSock] <= stamp + kern.rx[UdpSock]
        /\ uniq_pkt_sent_id' + 1 - Has(Top) <= uniq_pkt_sent_id + (stamp' - stamp)
    BY <1>2, <1>3, <1>5
  <2> QED
    BY <1>2, <1>3, <2>1, Kept
<1>6. Top.links \in Seq(Ports) /\ Top.links # <<>>
  BY <1>1 DEF Frame, LightningSend
<1>7. Head(Top.links) \in Ports /\ Tail(Top.links) \in Seq(Ports)
  BY <1>6
<1>8. f \in Frame /\ f.pc = Top.pc /\ f.bp = Top.bp
  BY <1>1, <1>7 DEF Frame
<1>9. Waits(f) /\ Has(f) = 1
  BY <1>1, <1>8 DEF Waits, Has
<1>10. \/ to = NoFd /\ stack' = <<f>> \o Tail(stack) /\ UNCHANGED <<pool, fate>>
       \/ to # NoFd /\ pool.free = <<>> /\ fate' = "crash" /\ UNCHANGED <<pool, stack>>
       \/ /\ to # NoFd /\ pool.free # <<>> /\ pool' = dup_buffer_tow(pool, Top.bp, to)
          /\ stack' = <<Callback(reg, to, FALSE)>> \o (<<f>> \o Tail(stack)) /\ fate' = fate
  BY DEF LightningSend
<1>11. to # NoFd => to \in Fds /\ IsRegistered(reg, to) /\ reg.info[to].cat = "tcp-write"
  <2>1. <<"tcp-write", Head(Top.links)>> \in Urls
    BY <1>7, NamesAre, NumbersAre
  <2> QED
    BY <1>3, <2>1, Leads
<1> HIDE DEF to, f
<1>12. CASE to = NoFd /\ stack' = <<f>> \o Tail(stack) /\ UNCHANGED <<pool, fate>>
  <2>1. TailCall(f)
    BY <1>2, <1>12 DEF TailCall
  <2>2. Onward(Has(f))
    BY <1>2, <1>4, <1>8, <1>9, <2>1, LoopCalled
  <2> QED
    BY <1>3, <1>9, <1>12, <2>2
<1>13. CASE to # NoFd /\ pool.free = <<>> /\ fate' = "crash" /\ UNCHANGED <<pool, stack>>
  <2>1. Onward(Has(Top))
    BY <1>2, <1>4, <1>13, Ending
  <2> QED
    BY <1>3, <1>5, <1>13, <2>1
<1>14. CASE /\ to # NoFd /\ pool.free # <<>> /\ pool' = dup_buffer_tow(pool, Top.bp, to)
            /\ stack' = <<Callback(reg, to, FALSE)>> \o (<<f>> \o Tail(stack))
            /\ fate' = fate
  <2>1. Onward(Has(f))
    BY <1>2, <1>4, <1>8, <1>9, <1>11, <1>14, WriterCalled
  <2>2. Sound(pool')
    BY <1>1, <1>3, <1>11, <1>14, DupToWrite
  <2> QED
    BY <1>9, <2>1, <2>2
<1> QED
  BY <1>10, <1>12, <1>13, <1>14

LEMMA LightningDoneKeeps == ASSUME IInv, LightningDone PROVE IInv'
<1>1. stack # <<>> /\ fate = "run" /\ Top.fd \in Fds /\ Top.pc = "lightning"
  BY LoopRunningIs DEF LightningDone, Loops
<1>2. /\ algo' = algo /\ uniq_pkt_sent_id' = uniq_pkt_sent_id + 1 /\ batch' = batch
      /\ left' = left /\ stamp' = stamp /\ is_rdy' = is_rdy /\ reg' = reg /\ kern' = kern
      /\ sent' = sent /\ pool' = mv_buffer_rtof(pool, Top.fd) /\ Answer(0)
  BY DEF LightningDone
<1>3. /\ kern \in Kernels /\ Wired(reg, kern) /\ sent \in [Fds -> Packets]
      /\ is_rdy \in BOOLEAN /\ Sound(pool)
      /\ uniq_pkt_sent_id \in Nat \ {0} /\ stamp \in Nat /\ kern.rx[UdpSock] \in Nat
  BY IInvIs
<1>4. Called
  BY <1>1, <1>2, StillCalled
<1>5. Onward(0)
  BY <1>2, <1>4, Answering
<1>6. Sound(pool')
  BY <1>1, <1>2, <1>3, ReadToFree
<1>7. Has(Top) = 1
  BY <1>1 DEF Has
<1>8. /\ uniq_pkt_sent_id' \in Nat \ {0}
      /\ stamp' + kern'.rx[UdpSock] <= stamp + kern.rx[UdpSock]
      /\ uniq_pkt_sent_id' + 0 - Has(Top) <= uniq_pkt_sent_id + (stamp' - stamp)
  BY <1>2, <1>3, <1>7
<1> QED
  BY <1>2, <1>3, <1>5, <1>6, <1>8, Kept

(* A step that leaves at most one call, which need not advance the counter. *)
LEMMA Afresh ==
  ASSUME IInv, algo' = algo, uniq_pkt_sent_id' = uniq_pkt_sent_id, is_rdy' = is_rdy,
         left' = left, stamp' = stamp, sent' = sent, fate' = fate,
         batch' \in [err : SUBSET Events, cb : SUBSET Events],
         Sound(pool'), kern' \in Kernels, kern'.rx = kern.rx, Wired(reg', kern'),
         Adding(reg', kern', current', accepting'),
         current' \in Fds \cup {NoFd}, accepting' \in Fds \cup {NoFd},
         \/ stack' = <<>>
         \/ \E f \in Frame : /\ stack' = <<f>> /\ current' \in Fds /\ Has(f) = 0
                             /\ Runs(f, reg', current', accepting')
  PROVE  IInv'
<1>1. Nested(stack', reg', current', accepting') /\ Unsent(stack') = 0
  <2>1. CASE stack' = <<>>
    <3>1. <<>> \in Seq(Frame)
      OBVIOUS
    <3>2. Waiting(<<>>)
      BY <3>1 DEF Waiting
    <3>3. Nested(<<>>, reg', current', accepting')
      BY <3>2, Settled
    <3> QED
      BY <2>1, <3>3, UnsentEmpty
  <2>2. CASE stack' # <<>>
    <3>1. PICK f \in Frame : /\ stack' = <<f>> /\ current' \in Fds /\ Has(f) = 0
                             /\ Runs(f, reg', current', accepting')
      BY <2>2
    <3>2. Nested(<<f>>, reg', current', accepting') /\ Unsent(<<f>>) = Has(f)
      BY <3>1, Alone
    <3> QED
      BY <3>1, <3>2
  <2> QED
    BY <2>1, <2>2
<1>2. Unsent(stack) \in Nat
  <2>1. stack \in Seq(Frame)
    BY IInvIs DEF Nested
  <2> QED
    BY <2>1, UnsentEmpty, UnsentPopped
<1>3. uniq_pkt_sent_id' + Unsent(stack') <= stamp' + 1
  <2>1. uniq_pkt_sent_id \in Nat /\ stamp \in Nat
        /\ uniq_pkt_sent_id + Unsent(stack) <= stamp + 1
    BY IInvIs
  <2> QED
    BY <1>1, <1>2, <2>1
<1>4. stamp' + left' + kern'.rx[UdpSock] <= MaxPackets
  BY IInvIs
<1>5. Scalars'
  BY IInvIs DEF Scalars
<1> QED
  BY <1>1, <1>3, <1>4, <1>5 DEF IInv

LEMMA AtLoopIs ==
  ASSUME IInv, AtLoop
  PROVE  stack = <<>> /\ current = NoFd /\ accepting = NoFd /\ fate = "run"
<1>1. stack = <<>> /\ current = NoFd /\ fate = "run"
  BY DEF AtLoop
<1>2. accepting = NoFd
  BY <1>1, IInvIs, NumbersAre, NamesAre DEF Adding
<1> QED
  BY <1>1, <1>2

LEMMA PollKeeps == ASSUME IInv, Poll PROVE IInv'
<1>1. /\ algo' = algo /\ uniq_pkt_sent_id' = uniq_pkt_sent_id /\ is_rdy' = is_rdy
      /\ left' = left /\ stamp' = stamp /\ sent' = sent /\ fate' = fate /\ pool' = pool
      /\ stack' = stack /\ current' = current /\ accepting' = accepting
      /\ reg' = ClearBlacklist(reg)
  BY DEF Poll, app_ctx
<1>2. PICK ws \in SUBSET Pending : batch' = BatchOf(kern, ws) /\ kern' = Reported(kern, ws)
  BY DEF Poll
<1>3. stack = <<>> /\ accepting = NoFd /\ current = NoFd
  BY AtLoopIs DEF Poll
<1>4. kern \in Kernels /\ Wired(reg, kern) /\ Sound(pool)
  BY IInvIs
<1>5. batch' \in [err : SUBSET Events, cb : SUBSET Events]
  BY <1>2, <1>4, BatchTyped
<1>6. kern' \in Kernels /\ kern'.rx = kern.rx /\ kern'.sock = kern.sock
  BY <1>2, <1>4, Reporting
<1>7. Wired(reg', kern')
  BY <1>1, <1>4, <1>6, BlacklistCleared
<1>8. Adding(reg', kern', current', accepting')
  BY <1>1, <1>3 DEF Adding
<1> QED
  BY <1>1, <1>3, <1>4, <1>5, <1>6, <1>7, <1>8, Afresh

LEMMA HandleEventKeeps == ASSUME IInv, HandleEvent PROVE IInv'
<1>1. /\ algo' = algo /\ uniq_pkt_sent_id' = uniq_pkt_sent_id /\ is_rdy' = is_rdy
      /\ left' = left /\ stamp' = stamp /\ sent' = sent /\ fate' = fate /\ pool' = pool
      /\ reg' = reg /\ kern' = kern /\ accepting' = accepting
  BY DEF HandleEvent, app_ctx
<1>2. PICK e \in batch.cb :
        /\ batch' = [batch EXCEPT !.cb = @ \ {e}]
        /\ IF Ignored(reg, e.fd) THEN UNCHANGED <<stack, current>>
           ELSE stack' = <<Callback(reg, e.fd, FALSE)>> /\ current' = e.fd
  BY DEF HandleEvent
<1>3. stack = <<>> /\ accepting = NoFd /\ current = NoFd
  BY AtLoopIs DEF HandleEvent
<1>4. /\ kern \in Kernels /\ Wired(reg, kern) /\ Sound(pool)
      /\ batch \in [err : SUBSET Events, cb : SUBSET Events]
  BY IInvIs
<1>5. batch' \in [err : SUBSET Events, cb : SUBSET Events]
  BY <1>2, <1>4
<1>6. e.fd \in Fds
  BY <1>2, <1>4 DEF Events
<1>7. Adding(reg', kern', current', accepting')
  BY <1>1, <1>3 DEF Adding
<1>8. CASE Ignored(reg, e.fd)
  <2>1. stack' = <<>> /\ current' = NoFd
    BY <1>2, <1>3, <1>8
  <2> QED
    BY <1>1, <1>3, <1>4, <1>5, <1>7, <2>1, Afresh
<1>9. CASE ~ Ignored(reg, e.fd)
  <2> DEFINE f == Callback(reg, e.fd, FALSE)
  <2>1. stack' = <<f>> /\ current' = e.fd
    BY <1>2, <1>9
  <2>2. IsRegistered(reg, e.fd)
    BY <1>9 DEF Ignored
  <2>3. f \in Frame /\ Runs(f, reg', current', accepting') /\ Has(f) = 0
    BY <1>1, <1>3, <1>4, <1>6, <2>1, <2>2, CallbackRuns
  <2> HIDE DEF f
  <2> QED
    BY <1>1, <1>3, <1>4, <1>5, <1>6, <1>7, <2>1, <2>3, Afresh
<1> QED
  BY <1>8, <1>9

(* What donar_server_stream_repair removes. *)
RemovesOne(p, g) ==
  /\ g \in Fds /\ IsRegistered(reg, g) /\ reg.info[g].cat # "udp-write" /\ rm_fd(p, g)

RemovesTwo(p, g, h) ==
  /\ g \in Fds /\ IsRegistered(reg, g) /\ reg.info[g].cat = "tcp-read"
  /\ h \in Fds /\ IsRegistered(reg, h) /\ reg.info[h].cat = "tcp-write"
  /\ reg' = RmFd(RmFd(reg, g), h)
  /\ kern' = Close(Close(kern, g), h)
  /\ pool' = ForgetFd(ForgetFd(p, g), h)

LEMMA PairIs ==
  ASSUME NEW S, NEW a \in S, NEW b \in S
  PROVE  Len(<<a>> \o <<b>>) = 2 /\ (<<a>> \o <<b>>)[1] = a /\ (<<a>> \o <<b>>)[2] = b
<1>1. <<a>> \in Seq(S) /\ <<b>> \in Seq(S) /\ Len(<<a>>) = 1 /\ Len(<<b>>) = 1
      /\ <<a>>[1] = a /\ <<b>>[1] = b
  OBVIOUS
<1> QED
  BY <1>1

LEMMA RepairedIs ==
  ASSUME IInv, NEW fd \in Fds, IsRegistered(reg, fd)
  PROVE  LET r  == Repaired(fd)
             Of(g, c) == g \in Fds /\ IsRegistered(reg, g) /\ reg.info[g].cat = c
         IN  \/ r = <<>>
             \/ Len(r) = 1 /\ (Of(r[1], "tcp-read") \/ Of(r[1], "tcp-write"))
             \/ Len(r) = 2 /\ Of(r[1], "tcp-read") /\ Of(r[2], "tcp-write")
<1> DEFINE p == reg.info[fd].url[2]
           g == FromUrl(reg, <<"tcp-read", p>>)
           h == FromUrl(reg, <<"tcp-write", p>>)
           Of(x, c) == x \in Fds /\ IsRegistered(reg, x) /\ reg.info[x].cat = c
           r == Repaired(fd)
<1>1. Wired(reg, kern)
  BY IInvIs
<1>2. p \in 0 .. NPorts
  BY <1>1, WiredIs
<1>3. <<"tcp-read", p>> \in Urls /\ <<"tcp-write", p>> \in Urls
  BY <1>2, NamesAre
<1>4. (g # NoFd => Of(g, "tcp-read")) /\ (h # NoFd => Of(h, "tcp-write"))
  BY <1>1, <1>3, Leads
<1>5. r = (IF g = NoFd THEN <<>> ELSE <<g>>) \o (IF h = NoFd THEN <<>> ELSE <<h>>)
  BY DEF Repaired
<1> HIDE DEF p, g, h, r
<1>6. CASE g = NoFd /\ h = NoFd
  BY <1>5, <1>6 DEF r
<1>7. CASE g # NoFd /\ h = NoFd
  <2>1. r = <<g>>
    BY <1>5, <1>7
  <2>2. Len(r) = 1 /\ r[1] = g
    BY <2>1
  <2> QED
    BY <1>4, <1>7, <2>2 DEF r
<1>8. CASE g = NoFd /\ h # NoFd
  <2>1. r = <<h>>
    BY <1>5, <1>8
  <2>2. Len(r) = 1 /\ r[1] = h
    BY <2>1
  <2> QED
    BY <1>4, <1>8, <2>2 DEF r
<1>9. CASE g # NoFd /\ h # NoFd
  <2>1. r = <<g>> \o <<h>> /\ g \in Fds /\ h \in Fds
    BY <1>4, <1>5, <1>9
  <2>2. Len(r) = 2 /\ r[1] = g /\ r[2] = h
    BY <2>1, PairIs
  <2> QED
    BY <1>4, <1>9, <2>2 DEF r
<1> QED
  BY <1>6, <1>7, <1>8, <1>9

LEMMA RemovingTwo ==
  ASSUME IInv, NEW p, Sound(p), NEW g, NEW h, RemovesTwo(p, g, h)
  PROVE  /\ Sound(pool') /\ kern' \in Kernels /\ kern'.rx = kern.rx /\ Wired(reg', kern')
<1> DEFINE r == RmFd(reg, g)
           k == Close(kern, g)
<1>1. kern \in Kernels /\ Wired(reg, kern)
  BY IInvIs
<1>2. Wired(r, k) /\ SameBut(reg, r, g)
  BY <1>1, RmWired DEF RemovesTwo
<1>3. k \in Kernels /\ k.rx = kern.rx
  BY <1>1, Closing DEF RemovesTwo
<1>4. reg' = RmFd(r, h) /\ kern' = Close(k, h) /\ pool' = ForgetFd(ForgetFd(p, g), h)
  BY DEF RemovesTwo
<1> HIDE DEF r, k
<1>5. h \in Fds /\ IsRegistered(r, h) /\ r.info[h].cat # "udp-write"
  BY <1>2 DEF RemovesTwo, SameBut
<1>6. Wired(reg', kern')
  BY <1>2, <1>3, <1>4, <1>5, RmWired
<1>7. kern' \in Kernels /\ kern'.rx = kern.rx
  BY <1>3, <1>4, <1>5, Closing
<1>8. Sound(ForgetFd(p, g))
  BY Forgotten DEF RemovesTwo
<1>9. Sound(pool')
  BY <1>4, <1>5, <1>8, Forgotten
<1> QED
  BY <1>6, <1>7, <1>9

LEMMA HandleErrorKeeps == ASSUME IInv, HandleError PROVE IInv'
<1>1. /\ algo' = algo /\ uniq_pkt_sent_id' = uniq_pkt_sent_id /\ is_rdy' = is_rdy
      /\ left' = left /\ stamp' = stamp /\ sent' = sent /\ fate' = fate
      /\ stack' = stack /\ current' = current /\ accepting' = accepting
  BY DEF HandleError, app_ctx
<1>2. PICK e \in batch.err :
        /\ batch' = [batch EXCEPT !.err = @ \ {e}]
        /\ IF Ignored(reg, e.fd) THEN UNCHANGED <<pool, reg, kern>>
           ELSE LET p == ReleaseAll(pool, e.fd)
                    r == Repaired(e.fd)
                IN  IF reg.info[e.fd].cat \in {"udp-read", "udp-write"} \/ r = <<>>
                    THEN pool' = p /\ UNCHANGED <<reg, kern>>
                    ELSE IF Len(r) = 1 THEN rm_fd(p, r[1])
                    ELSE /\ reg' = RmFd(RmFd(reg, r[1]), r[2])
                         /\ kern' = Close(Close(kern, r[1]), r[2])
                         /\ pool' = ForgetFd(ForgetFd(p, r[1]), r[2])
  BY DEF HandleError
<1>3. stack = <<>> /\ accepting = NoFd /\ current = NoFd
  BY AtLoopIs DEF HandleError
<1>4. /\ kern \in Kernels /\ Wired(reg, kern) /\ Sound(pool)
      /\ batch \in [err : SUBSET Events, cb : SUBSET Events]
  BY IInvIs
<1>5. batch' \in [err : SUBSET Events, cb : SUBSET Events]
  BY <1>2, <1>4
<1>6. e.fd \in Fds
  BY <1>2, <1>4 DEF Events
<1>7. Adding(reg', kern', current', accepting')
  BY <1>1, <1>3 DEF Adding
<1> SUFFICES Sound(pool') /\ kern' \in Kernels /\ kern'.rx = kern.rx /\ Wired(reg', kern')
  BY <1>1, <1>3, <1>5, <1>7, Afresh
<1>8. CASE Ignored(reg, e.fd)
  BY <1>2, <1>4, <1>8
<1>9. CASE ~ Ignored(reg, e.fd)
  <2> DEFINE p == ReleaseAll(pool, e.fd)
             r == Repaired(e.fd)
  <2>1. IsRegistered(reg, e.fd)
    BY <1>9 DEF Ignored
  <2>2. Sound(p)
    BY <1>4, <1>6, Released
  <2>3. \/ pool' = p /\ reg' = reg /\ kern' = kern
        \/ r # <<>> /\ Len(r) = 1 /\ rm_fd(p, r[1])
        \/ /\ r # <<>> /\ Len(r) # 1
           /\ reg' = RmFd(RmFd(reg, r[1]), r[2])
           /\ kern' = Close(Close(kern, r[1]), r[2])
           /\ pool' = ForgetFd(ForgetFd(p, r[1]), r[2])
    BY <1>2, <1>9
  <2>4. LET Of(g, c) == g \in Fds /\ IsRegistered(reg, g) /\ reg.info[g].cat = c
        IN  \/ r = <<>>
            \/ Len(r) = 1 /\ (Of(r[1], "tcp-read") \/ Of(r[1], "tcp-write"))
            \/ Len(r) = 2 /\ Of(r[1], "tcp-read") /\ Of(r[2], "tcp-write")
    BY <1>6, <2>1, RepairedIs
  <2> HIDE DEF p, r
  <2>5. \/ pool' = p /\ reg' = reg /\ kern' = kern
        \/ RemovesOne(p, r[1])
        \/ RemovesTwo(p, r[1], r[2])
    BY <2>3, <2>4 DEF RemovesOne, RemovesTwo
  <2>6. CASE pool' = p /\ reg' = reg /\ kern' = kern
    BY <1>4, <2>2, <2>6
  <2>7. CASE RemovesOne(p, r[1])
    BY <2>2, <2>7, Removing DEF RemovesOne
  <2>8. CASE RemovesTwo(p, r[1], r[2])
    BY <2>2, <2>8, RemovingTwo
  <2> QED
    BY <2>5, <2>6, <2>7, <2>8
<1> QED
  BY <1>8, <1>9

LEMMA TcpCoNoneKeeps == ASSUME IInv, TcpCoNone PROVE IInv'
<1>1. stack # <<>> /\ fate = "run"
  BY NamesAre, RunningIs DEF TcpCoNone
<1>2. /\ algo' = algo /\ uniq_pkt_sent_id' = uniq_pkt_sent_id /\ batch' = batch
      /\ left' = left /\ stamp' = stamp /\ is_rdy' = is_rdy /\ reg' = reg /\ kern' = kern
      /\ sent' = sent /\ pool' = pool /\ Answer(1)
  BY DEF TcpCoNone, app_ctx
<1>3. /\ kern \in Kernels /\ Wired(reg, kern) /\ sent \in [Fds -> Packets]
      /\ is_rdy \in BOOLEAN /\ Sound(pool)
  BY IInvIs
<1>4. Called
  BY <1>1, <1>2, StillCalled
<1>5. Onward(0)
  BY <1>2, <1>4, Answering
<1> QED
  BY <1>2, <1>3, <1>5, KeptPlain

(* accept and dup. *)
Accepted(k, r, w, p) ==
  [k EXCEPT !.sock[r] = Head(k.backlog[p]), !.sock[w] = Head(k.backlog[p]),
            !.backlog[p] = Tail(@)]

LEMMA Accepting ==
  ASSUME NEW k \in Kernels, NEW r \in Closed(k), NEW w \in Closed(k), NEW p \in Ports,
         k.backlog[p] # <<>>, NEW t, t = Accepted(k, r, w, p)
  PROVE  /\ t \in Kernels /\ t.rx = k.rx /\ Head(k.backlog[p]) \in Conns
         /\ t.sock[r] = Head(k.backlog[p]) /\ t.sock[w] = Head(k.backlog[p])
         /\ \A g \in Fds : k.sock[g] # NoSock => t.sock[g] = k.sock[g]
<1> DEFINE c  == Head(k.backlog[p])
           tl == Tail(k.backlog[p])
<1>1. k.backlog[p] \in Seq(Conns)
  BY KernelIs
<1>2. c \in Conns /\ tl \in Seq(Conns)
  BY <1>1
<1>3. r \in Fds /\ w \in Fds /\ k.sock[r] = NoSock /\ k.sock[w] = NoSock
  BY DEF Closed
<1> HIDE DEF c, tl
<1>4. t = [k EXCEPT !.sock[r] = c, !.sock[w] = c, !.backlog[p] = tl]
  BY DEF c, tl, Accepted
<1>5. c \in Files
  BY <1>2, FilesAre
<1>6. t.sock = [k.sock EXCEPT ![r] = c, ![w] = c]
      /\ t.backlog = [k.backlog EXCEPT ![p] = tl] /\ t.rx = k.rx
  BY <1>4 DEF Kernels
<1>7. t.sock \in [Fds -> Files] /\ t.sock[r] = c /\ t.sock[w] = c
      /\ \A g \in Fds : g # r /\ g # w => t.sock[g] = k.sock[g]
  <2> DEFINE x == [k.sock EXCEPT ![r] = c]
  <2>1. x \in [Fds -> Files] /\ x[r] = c /\ \A g \in Fds : g # r => x[g] = k.sock[g]
    BY <1>3, <1>5, KernelIs
  <2>2. t.sock = [x EXCEPT ![w] = c]
    BY <1>6
  <2> HIDE DEF x
  <2> QED
    BY <1>3, <1>5, <2>1, <2>2
<1>8. t.backlog \in [Ports -> Seq(Conns)]
  BY <1>2, <1>6, KernelIs
<1>9. t \in Kernels
  BY <1>4, <1>7, <1>8 DEF Kernels
<1> QED
  BY <1>2, <1>3, <1>6, <1>7, <1>9 DEF c

LEMMA TcpCoKeeps == ASSUME IInv, TcpCo PROVE IInv'
<1> DEFINE p == Top.fd - 2
           c == Head(kern.backlog[p])
<1>1. /\ stack # <<>> /\ fate = "run" /\ Top.fd \in Fds /\ current = Top.fd
      /\ IsRegistered(reg, Top.fd) /\ reg.info[Top.fd].cat = "tcp-listen"
  BY NamesAre, RunningIs DEF TcpCo
<1>2. /\ algo' = algo /\ uniq_pkt_sent_id' = uniq_pkt_sent_id /\ batch' = batch
      /\ left' = left /\ stamp' = stamp /\ is_rdy' = is_rdy /\ sent' = sent
      /\ current' = current /\ fate' = fate
  BY DEF TcpCo, app_ctx
<1>3. kern \in Kernels /\ Wired(reg, kern) /\ Sound(pool)
      /\ batch \in [err : SUBSET Events, cb : SUBSET Events]
  BY IInvIs
<1>4. Top.fd \in Listeners /\ p \in Ports
  BY <1>1, <1>3, WiredIs, NumbersAre
<1>5. PICK r \in Closed(kern), w \in Closed(kern), inherit \in BOOLEAN :
        /\ r < w
        /\ reg' = AddFd(reg, r, "tcp-read", <<"tcp-read", p>>)
        /\ kern' = Watch([kern EXCEPT !.sock[r] = c, !.sock[w] = c, !.backlog[p] = Tail(@)],
                         <<c, r, "in">>, kern.rx[c] > 0, Broken(c))
        /\ pool' = AdoptFd(pool, r, inherit)
        /\ accepting' = w
        /\ stack' = <<Callback(reg', r, FALSE)>>
  BY DEF TcpCo
<1>6. kern.backlog[p] # <<>>
  BY DEF TcpCo
<1>7. /\ r \in Closed(kern) /\ w \in Closed(kern) /\ r \in Fds /\ w \in Fds /\ r # w
      /\ kern.sock[r] = NoSock /\ kern.sock[w] = NoSock
  BY <1>5, NumbersAre DEF Closed
<1> DEFINE k == Accepted(kern, r, w, p)
           ready  == kern.rx[c] > 0
           broken == Broken(c)
<1>8. kern' = Watch(k, <<c, r, "in">>, ready, broken)
  BY <1>5 DEF Accepted
<1> HIDE DEF ready, broken
<1>9. /\ k \in Kernels /\ k.rx = kern.rx /\ c \in Conns /\ k.sock[r] = c /\ k.sock[w] = c
      /\ \A g \in Fds : kern.sock[g] # NoSock => k.sock[g] = kern.sock[g]
  <2> HIDE DEF k, p
  <2>1. k = Accepted(kern, r, w, p)
    BY DEF k
  <2> QED
    BY <1>3, <1>4, <1>6, <1>7, <2>1, Accepting
<1> HIDE DEF k, c, p
<1>10. c \in Files /\ c # NoSock
  BY <1>9, FilesAre
<1>11. kern' \in Kernels /\ kern'.rx = k.rx /\ kern'.sock = k.sock
  <2> DEFINE x == <<c, r, "in">>
  <2>1. x \in Watched /\ kern' = Watch(k, x, ready, broken)
    BY <1>7, <1>8, <1>10 DEF Watched
  <2> HIDE DEF x
  <2> QED
    BY <1>9, <2>1, Watching
<1>12. ~ IsRegistered(reg, r) /\ ~ IsRegistered(reg, w)
  BY <1>3, <1>7, WiredIs
<1>13. /\ Wired(reg', kern') /\ IsRegistered(reg', r) /\ reg'.info[r].cat = "tcp-read"
       /\ SameBut(reg, reg', r)
  <2>1. "tcp-read" \in Cats /\ p \in 0 .. NPorts
    BY <1>4, NamesAre, NumbersAre
  <2>2. kern'.sock[r] # NoSock /\ \A g \in Fds : kern.sock[g] # NoSock => kern'.sock[g] # NoSock
    BY <1>9, <1>10, <1>11
  <2> QED
    BY <1>3, <1>5, <1>7, <1>12, <2>1, <2>2, AddWired
<1>14. Adding(reg', kern', current', accepting')
  <2>1. ~ IsRegistered(reg', w)
    BY <1>7, <1>12, <1>13 DEF SameBut
  <2>2. kern'.sock[w] # NoSock
    BY <1>9, <1>10, <1>11
  <2> QED
    BY <1>1, <1>2, <1>4, <1>5, <1>7, <2>1, <2>2 DEF Adding
<1>15. Sound(pool')
  BY <1>3, <1>5, <1>7, Adopted
<1> DEFINE f == Callback(reg', r, FALSE)
<1>16. f \in Frame /\ Runs(f, reg', current', accepting') /\ Has(f) = 0
  BY <1>7, <1>13, CallbackRuns
<1>17. stack' = <<f>>
  BY <1>5
<1> HIDE DEF f
<1>18. current' \in Fds /\ accepting' \in Fds
  BY <1>1, <1>2, <1>5, <1>7
<1> QED
  BY <1>2, <1>3, <1>9, <1>11, <1>13, <1>14, <1>15, <1>16, <1>17, <1>18, Afresh

LEMMA TcpCoWriterKeeps == ASSUME IInv, TcpCoWriter PROVE IInv'
<1> DEFINE w == accepting
           c == kern.sock[w]
           p == current - 2
<1>1. fate = "run" /\ stack = <<>> /\ w # NoFd
  BY DEF TcpCoWriter
<1>2. /\ algo' = algo /\ uniq_pkt_sent_id' = uniq_pkt_sent_id /\ batch' = batch
      /\ left' = left /\ stamp' = stamp /\ is_rdy' = is_rdy /\ sent' = sent
      /\ current' = current /\ fate' = fate /\ accepting' = NoFd
  BY DEF TcpCoWriter, app_ctx
<1>3. kern \in Kernels /\ Wired(reg, kern) /\ Sound(pool)
      /\ batch \in [err : SUBSET Events, cb : SUBSET Events]
  BY IInvIs
<1>4. w \in Fds /\ ~ IsRegistered(reg, w) /\ c # NoSock /\ current \in Listeners
  BY <1>1, IInvIs DEF Adding
<1>5. p \in Ports /\ current \in Fds
  BY <1>4, NumbersAre
<1>6. PICK inherit \in BOOLEAN :
        /\ reg' = AddFd(reg, w, "tcp-write", <<"tcp-write", p>>)
        /\ kern' = Watch(kern, <<c, w, "out">>, c \notin kern.full, Broken(c))
        /\ pool' = AdoptFd(pool, w, inherit)
        /\ stack' = <<Callback(reg', w, TRUE)>>
  BY DEF TcpCoWriter
<1>7. c \in Files
  BY <1>3, <1>4, KernelIs
<1> HIDE DEF p, c, w
<1> DEFINE ready  == c \notin kern.full
           broken == Broken(c)
<1>a. kern' = Watch(kern, <<c, w, "out">>, ready, broken)
  BY <1>6
<1> HIDE DEF ready, broken
<1>8. kern' \in Kernels /\ kern'.rx = kern.rx /\ kern'.sock = kern.sock
  <2> DEFINE x == <<c, w, "out">>
  <2>1. x \in Watched /\ kern' = Watch(kern, x, ready, broken)
    BY <1>4, <1>7, <1>a DEF Watched
  <2> HIDE DEF x
  <2> QED
    BY <1>3, <2>1, Watching
<1>9. Wired(reg', kern') /\ IsRegistered(reg', w) /\ reg'.info[w].cat = "tcp-write"
  <2>1. "tcp-write" \in Cats /\ p \in 0 .. NPorts
    BY <1>5, NamesAre, NumbersAre
  <2>2. kern'.sock[w] # NoSock /\ \A g \in Fds : kern.sock[g] # NoSock => kern'.sock[g] # NoSock
    BY <1>4, <1>8 DEF c
  <2> QED
    BY <1>3, <1>4, <1>6, <2>1, <2>2, AddWired
<1>10. Adding(reg', kern', current', accepting')
  BY <1>2 DEF Adding
<1>11. Sound(pool')
  BY <1>3, <1>4, <1>6, Adopted
<1> DEFINE f == Callback(reg', w, TRUE)
<1>12. f \in Frame /\ Runs(f, reg', current', accepting') /\ Has(f) = 0
  BY <1>4, <1>9, CallbackRuns
<1>13. stack' = <<f>>
  BY <1>6
<1> HIDE DEF f
<1>14. current' \in Fds
  BY <1>2, <1>5
<1> QED
  BY <1>2, <1>3, <1>8, <1>9, <1>10, <1>11, <1>12, <1>13, <1>14, Afresh

(* The outside world only changes what comes and goes over the sockets. *)
LEMMA EnvKeeps == ASSUME IInv, Env PROVE IInv'
<1>1. kern \in Kernels /\ Wired(reg, kern) /\ left \in Nat /\ stamp \in Nat
      /\ kern.rx[UdpSock] \in Nat /\ MaxPackets \in Nat
      /\ stamp + left + kern.rx[UdpSock] <= MaxPackets
  BY IInvIs
<1>2. UNCHANGED EnvVars
  BY DEF Env, Connect, Arrive, Break, UdpError, Drain
<1> SUFFICES /\ kern' \in Kernels /\ kern'.sock = kern.sock /\ left' \in Nat
             /\ stamp + left' + kern'.rx[UdpSock] <= MaxPackets
  <2>1. /\ algo' = algo /\ uniq_pkt_sent_id' = uniq_pkt_sent_id /\ pool' = pool /\ reg' = reg
        /\ stack' = stack /\ current' = current /\ accepting' = accepting /\ batch' = batch
        /\ is_rdy' = is_rdy /\ stamp' = stamp /\ sent' = sent /\ fate' = fate
    BY <1>2 DEF EnvVars, app_ctx
  <2>2. Wired(reg', kern')
    BY <1>1, <2>1, Rewired
  <2>3. Adding(reg', kern', current', accepting')
    BY <2>1, IInvIs DEF Adding
  <2>4. Scalars'
    BY <2>1, IInvIs DEF Scalars
  <2>5. Nested(stack', reg', current', accepting')
    BY <2>1, IInvIs
  <2>6. uniq_pkt_sent_id' + Unsent(stack') <= stamp' + 1
    BY <2>1, IInvIs
  <2> QED
    BY <2>1, <2>2, <2>3, <2>4, <2>5, <2>6, IInvIs DEF IInv
<1>3. CASE Connect
  <2>1. PICK c \in Conns, p \in Ports :
          kern' = [kern EXCEPT !.link[c] = "open", !.backlog[p] = Append(@, c)]
    BY <1>3 DEF Connect
  <2>2. left' = left
    BY <1>3 DEF Connect
  <2>3. Append(kern.backlog[p], c) \in Seq(Conns)
    BY <1>1, KernelIs
  <2>4. kern' \in Kernels /\ kern'.sock = kern.sock /\ kern'.rx = kern.rx
    BY <1>1, <2>1, <2>3 DEF Kernels
  <2> QED
    BY <1>1, <2>2, <2>4
<1>4. CASE Arrive
  <2>1. PICK s \in Sockets :
          kern' = [kern EXCEPT !.rx[s] = @ + 1, !.ready = @ \cup Ins(kern, s)]
    BY <1>4 DEF Arrive
  <2>2. left > 0 /\ left' = left - 1
    BY <1>4 DEF Arrive
  <2>3. kern.ready \cup Ins(kern, s) \subseteq Watched
    BY <1>1, KernelIs DEF Ins, Watches
  <2>4. kern.rx \in [Sockets -> Nat] /\ UdpSock \in Sockets
    BY <1>1, KernelIs, FilesAre
  <2> DEFINE x == [kern.rx EXCEPT ![s] = kern.rx[s] + 1]
             y == kern.ready \cup Ins(kern, s)
  <2>5. kern.rx[s] + 1 \in Nat /\ kern' = [kern EXCEPT !.rx = x, !.ready = y]
    BY <2>1, <2>4
  <2>6. /\ x \in [Sockets -> Nat] /\ x[UdpSock] \in Nat
        /\ x[UdpSock] <= kern.rx[UdpSock] + 1
    BY <1>1, <2>4, <2>5
  <2> HIDE DEF x, y
  <2>7. kern' \in Kernels /\ kern'.sock = kern.sock /\ kern'.rx = x
    BY <1>1, <2>3, <2>5, <2>6 DEF Kernels, y
  <2> QED
    BY <1>1, <2>2, <2>6, <2>7
<1>5. CASE Break
  <2>1. PICK c \in Conns :
          kern' = [kern EXCEPT !.link[c] = "broken", !.hup = @ \cup Watches(kern, c)]
    BY <1>5 DEF Break
  <2>2. left' = left
    BY <1>5 DEF Break
  <2>3. kern.hup \cup Watches(kern, c) \subseteq Watched
    BY <1>1, KernelIs DEF Watches
  <2>4. kern' \in Kernels /\ kern'.sock = kern.sock /\ kern'.rx = kern.rx
    BY <1>1, <2>1, <2>3 DEF Kernels
  <2> QED
    BY <1>1, <2>2, <2>4
<1>6. CASE UdpError
  <2>1. /\ left > 0 /\ left' = left - 1
        /\ kern' = [kern EXCEPT !.hup = @ \cup Watches(kern, UdpSock)]
    BY <1>6 DEF UdpError
  <2>2. kern.hup \cup Watches(kern, UdpSock) \subseteq Watched
    BY <1>1, KernelIs DEF Watches
  <2>3. kern' \in Kernels /\ kern'.sock = kern.sock /\ kern'.rx = kern.rx
    BY <1>1, <2>1, <2>2 DEF Kernels
  <2> QED
    BY <1>1, <2>1, <2>3
<1>7. CASE Drain
  <2>1. PICK s \in kern.full :
          kern' = [kern EXCEPT !.full = @ \ {s}, !.ready = @ \cup Outs(kern, s)]
    BY <1>7 DEF Drain
  <2>2. left' = left
    BY <1>7 DEF Drain
  <2>3. kern.ready \cup Outs(kern, s) \subseteq Watched /\ kern.full \ {s} \subseteq Files
    BY <1>1, KernelIs DEF Outs, Watches
  <2>4. kern' \in Kernels /\ kern'.sock = kern.sock /\ kern'.rx = kern.rx
    BY <1>1, <2>1, <2>3 DEF Kernels
  <2> QED
    BY <1>1, <2>2, <2>4
<1> QED
  BY <1>3, <1>4, <1>5, <1>6, <1>7 DEF Env

-----------------------------------------------------------------------------
(* The state donar_server has set up.                                      *)

LEMMA ListenersAdded ==
  LET r == AddListeners
  IN  /\ r \in Registry /\ RegistryInv(r)
      /\ \A fd \in Fds : IsRegistered(r, fd) <=> fd \in Listeners
      /\ \A fd \in Listeners : /\ r.info[fd].cat = "tcp-listen"
                               /\ r.info[fd].url[1] = "tcp-listen"
<1> DEFINE info == [fd \in Fds |-> IF fd \in Listeners
                                   THEN [cat |-> "tcp-listen", url |-> <<"tcp-listen", fd - 2>>]
                                   ELSE NoInfo]
           ls   == [p \in Ports |-> Listen(p)]
           list == [c \in Cats |-> IF c = "tcp-listen" THEN ls ELSE <<>>]
           url  == [u \in Urls |-> IF u[1] = "tcp-listen" /\ u[2] \in Ports
                                   THEN Listen(u[2]) ELSE NoFd]
           r    == AddListeners
<1>1. NPorts \in Nat /\ Ports = 1 .. NPorts
  BY NumbersAre DEF Ports
<1>2. /\ r.info = info /\ r.list = list /\ r.url = url /\ r.key = url /\ r.black = <<>>
      /\ r = [info |-> r.info, list |-> r.list, url |-> r.url, key |-> r.key,
              black |-> r.black]
  <2> DEFINE e == EmptyRegistry
  <2>1. /\ e.info = [fd \in Fds |-> NoInfo] /\ e.list = [c \in Cats |-> <<>>]
        /\ e.url = [u \in Urls |-> NoFd] /\ e.key = [u \in Urls |-> NoFd]
        /\ e.black = <<>> /\ DOMAIN e = {"info", "list", "url", "key", "black"}
    BY DEF EmptyRegistry
  <2>2. e = [x \in DOMAIN e |-> e[x]]
    BY DEF EmptyRegistry
  <2> HIDE DEF e
  <2>3. /\ DOMAIN r = DOMAIN e
        /\ r = [x \in DOMAIN r |-> r[x]]
        /\ r.info = [fd \in Fds |-> IF fd \in {Listen(p) : p \in Ports}
                                    THEN [cat |-> "tcp-listen", url |-> <<"tcp-listen", fd - 2>>]
                                    ELSE e.info[fd]]
        /\ r.list = [e.list EXCEPT !["tcp-listen"] = [p \in Ports |-> Listen(p)]]
        /\ r.url = [u \in Urls |-> IF u[1] = "tcp-listen" /\ u[2] \in Ports
                                   THEN Listen(u[2]) ELSE e.url[u]]
        /\ r.key = [u \in Urls |-> IF u[1] = "tcp-listen" /\ u[2] \in Ports
                                   THEN Listen(u[2]) ELSE e.key[u]]
        /\ r.black = e.black
    BY <2>1, <2>2 DEF AddListeners, e
  <2> HIDE DEF r
  <2>4. r.info = info
    BY <2>1, <2>3 DEF Listeners
  <2>5. r.url = url /\ r.key = url
    BY <2>1, <2>3
  <2>6. r.list = list
    BY <2>1, <2>3, NamesAre
  <2>7. r.black = <<>>
    BY <2>1, <2>3
  <2>8. r = [info |-> r.info, list |-> r.list, url |-> r.url, key |-> r.key,
             black |-> r.black]
    <3>1. DOMAIN r = {"info", "list", "url", "key", "black"}
      BY <2>1, <2>3
    <3> QED
      BY <2>3, <3>1
  <2> QED
    BY <2>4, <2>5, <2>6, <2>7, <2>8
<1>3. ls \in Seq(Fds) /\ Len(ls) = NPorts /\ \A i \in 1 .. NPorts : ls[i] = Listen(i)
  BY <1>1, NumbersAre
<1>4. \A fd \in Listeners : <<"tcp-listen", fd - 2>> \in Urls
  BY NumbersAre, NamesAre
<1>5. info \in [Fds -> Info \cup {NoInfo}]
  BY <1>4, NamesAre DEF Info
<1>6. list \in [Cats -> Seq(Fds)]
  <2>1. <<>> \in Seq(Fds)
    OBVIOUS
  <2> HIDE DEF ls
  <2> QED
    BY <1>3, <2>1
<1>7. url \in [Urls -> Fds \cup {NoFd}]
  BY NumbersAre
<1>8. <<>> \in Seq(Fds)
  OBVIOUS
<1> HIDE DEF r
<1>9. r \in Registry
  <2> HIDE DEF info, list, url
  <2> QED
    BY <1>2, <1>5, <1>6, <1>7, <1>8 DEF Registry
<1>10. \A fd \in Fds : /\ (r.info[fd].cat = "tcp-listen" <=> fd \in Listeners)
                       /\ (IsRegistered(r, fd) <=> fd \in Listeners)
                       /\ fd \in Listeners =>
                            /\ r.info[fd].cat = "tcp-listen"
                            /\ r.info[fd].url = <<"tcp-listen", fd - 2>>
                       /\ fd \notin Listeners => r.info[fd].cat = NoFd
  BY <1>2, NamesAre DEF IsRegistered, NoInfo
<1>11. \A fd : Holds(ls, fd) <=> fd \in Listeners
  <2> HIDE DEF ls
  <2> QED
    BY <1>1, <1>3 DEF Holds, Listeners
<1>12. Distinct(ls)
  <2> HIDE DEF ls
  <2> QED
    BY <1>1, <1>3 DEF Distinct, Listen
<1>13. Distinct(<<>>) /\ \A fd : ~ Holds(<<>>, fd)
  BY DEF Distinct, Holds
<1>14. Agrees(r)
  <2> SUFFICES ASSUME NEW c \in Cats
               PROVE  /\ Distinct(r.list[c])
                      /\ \A fd \in Fds : Holds(r.list[c], fd) <=> r.info[fd].cat = c
    BY DEF Agrees
  <2>1. CASE c = "tcp-listen"
    <3>1. r.list[c] = ls
      BY <1>2, <2>1
    <3> HIDE DEF ls, list
    <3> QED
      BY <1>10, <1>11, <1>12, <2>1, <3>1
  <2>2. CASE c # "tcp-listen"
    <3>1. r.list[c] = <<>>
      BY <1>2, <2>2
    <3> HIDE DEF ls, list
    <3> QED
      BY <1>10, <1>13, <2>2, <3>1, NamesAre
  <2> QED
    BY <2>1, <2>2
<1>15. UrlsLive(r)
  <2> SUFFICES ASSUME NEW u \in Urls, url[u] # NoFd
               PROVE  r.info[url[u]].url = u
    BY <1>2 DEF UrlsLive
  <2>1. u[1] = "tcp-listen" /\ u[2] \in Ports /\ url[u] = Listen(u[2])
    OBVIOUS
  <2>2. Listen(u[2]) \in Listeners /\ Listen(u[2]) \in Fds /\ Listen(u[2]) - 2 = u[2]
    BY <1>1, <2>1, NumbersAre DEF Listen
  <2>3. u = <<u[1], u[2]>>
    BY NamesAre
  <2> HIDE DEF url
  <2> QED
    BY <1>10, <2>1, <2>2, <2>3
<1>16. RegistryInv(r)
  BY <1>9, <1>14, <1>15, InvIs
<1>17. ASSUME NEW fd \in Listeners
       PROVE  r.info[fd].cat = "tcp-listen" /\ r.info[fd].url[1] = "tcp-listen"
  BY <1>10, NumbersAre
<1>18. \A fd \in Fds : IsRegistered(r, fd) <=> fd \in Listeners
  BY <1>10
<1> QED
  BY <1>9, <1>16, <1>17, <1>18 DEF r

LEMMA InitKeeps == ASSUME Init PROVE IInv
<1>1. /\ algo \in Algos /\ pool = get_read_buffer(InitPool, UR)
      /\ stack = <<>> /\ current = NoFd /\ accepting = NoFd /\ uniq_pkt_sent_id = 1
      /\ batch = EmptyBatch /\ is_rdy = FALSE /\ kern = InitKern
      /\ left = MaxPackets /\ stamp = 0 /\ sent = [fd \in Fds |-> 0] /\ fate = "run"
  BY DEF Init
<1>2. Sound(pool)
  BY <1>1, InitSound, GetRead, NumbersAre
<1>3. kern \in Kernels /\ kern.rx[UdpSock] = 0
      /\ \A fd \in Fds : fd \in Listeners \/ fd = UR \/ fd = UW => kern.sock[fd] # NoSock
  <2> DEFINE sock == [fd \in Fds |-> IF fd \in {UR, UW} THEN UdpSock
                                     ELSE IF fd \in ConnFds THEN NoSock
                                     ELSE ListenSock]
             watch == {<<UdpSock, UR, "in">>, <<UdpSock, UW, "out">>} \cup
                      {<<ListenSock, Listen(p), "in">> : p \in Ports}
             rdy == {<<UdpSock, UW, "out">>}
             rx == [s \in Sockets |-> 0]
             lk == [c \in Conns |-> "none"]
             bk == [p \in Ports |-> <<>>]
  <2>1. sock \in [Fds -> Files]
    BY FilesAre
  <2>2. watch \subseteq Watched /\ rdy \subseteq Watched
    BY FilesAre, NumbersAre DEF Watched
  <2>3. rx \in [Sockets -> Nat] /\ rx[UdpSock] = 0
    BY FilesAre
  <2>4. lk \in [Conns -> {"none", "open", "broken"}]
    OBVIOUS
  <2>5. bk \in [Ports -> Seq(Conns)]
    <3>1. <<>> \in Seq(Conns)
      OBVIOUS
    <3> QED
      BY <3>1
  <2>6. \A fd \in Fds : fd \in Listeners \/ fd = UR \/ fd = UW => sock[fd] # NoSock
    <3>1. \A fd \in Listeners : fd \notin ConnFds
      BY NumbersAre DEF Listeners, Listen, Ports, ConnFds
    <3> QED
      BY <3>1, FilesAre
  <2>7. kern = [sock |-> sock, watch |-> watch, ready |-> rdy, hup |-> {}, rx |-> rx,
                full |-> {}, link |-> lk, backlog |-> bk]
    BY <1>1 DEF InitKern
  <2> HIDE DEF sock, watch, rdy, rx, lk, bk
  <2> QED
    BY <2>1, <2>2, <2>3, <2>4, <2>5, <2>6, <2>7 DEF Kernels
<1>4. Wired(reg, kern)
  <2> DEFINE ur == <<"udp-read", 0>>
             uw == <<"udp-write", 0>>
             r == AddListeners
             s == AddFd(r, UR, "udp-read", ur)
             t == AddFd(s, UW, "udp-write", uw)
  <2>1. reg = t
    BY DEF Init
  <2>2. /\ r \in Registry /\ RegistryInv(r)
        /\ \A fd \in Fds : IsRegistered(r, fd) <=> fd \in Listeners
        /\ \A fd \in Listeners : /\ r.info[fd].cat = "tcp-listen"
                                 /\ r.info[fd].url[1] = "tcp-listen"
    BY ListenersAdded
  <2> HIDE DEF r
  <2>3. /\ ur \in Urls /\ uw \in Urls /\ ur[1] = "udp-read" /\ uw[1] = "udp-write"
        /\ "udp-read" \in Cats /\ "udp-write" \in Cats
    BY NamesAre, NumbersAre
  <2> HIDE DEF ur, uw
  <2>4. /\ UR \in Fds /\ UW \in Fds /\ UR # UW /\ UR \notin Listeners /\ UW \notin Listeners
    BY NumbersAre
  <2>5. s \in Registry /\ RegistryInv(s)
    BY <2>2, <2>3, <2>4, AddKeepsRegistry
  <2>6. s.info = [r.info EXCEPT ![UR] = [cat |-> "udp-read", url |-> ur]]
    <3>1. Added(r, s, UR, "udp-read", ur)
      BY <2>2, <2>3, <2>4, AddFields
    <3> QED
      BY <3>1 DEF Added
  <2> HIDE DEF s
  <2>7. r.info \in [Fds -> Info \cup {NoInfo}]
    BY <2>2 DEF Registry
  <2>8. ~ IsRegistered(s, UW)
    BY <2>2, <2>4, <2>6, <2>7 DEF IsRegistered
  <2>9. t \in Registry /\ RegistryInv(t)
    BY <2>3, <2>4, <2>5, <2>8, AddKeepsRegistry
  <2>10. t.info = [s.info EXCEPT ![UW] = [cat |-> "udp-write", url |-> uw]]
    <3>1. Added(s, t, UW, "udp-write", uw)
      BY <2>3, <2>4, <2>5, AddFields
    <3> QED
      BY <3>1 DEF Added
  <2> HIDE DEF t
  <2>11. /\ t.info[UW] = [cat |-> "udp-write", url |-> uw]
         /\ t.info[UR] = [cat |-> "udp-read", url |-> ur]
         /\ \A fd \in Fds : fd # UR /\ fd # UW => t.info[fd] = r.info[fd]
    BY <2>4, <2>6, <2>7, <2>10
  <2>12. IsRegistered(t, UW) /\ t.info[UW].cat = "udp-write"
    BY <2>11, NamesAre DEF IsRegistered, NoInfo
  <2>13. ASSUME NEW fd \in Fds, IsRegistered(t, fd)
         PROVE  /\ kern.sock[fd] # NoSock /\ t.info[fd].url[1] = t.info[fd].cat
                /\ t.info[fd].cat = "tcp-listen" => fd \in Listeners
    <3>1. CASE fd = UW \/ fd = UR
      BY <1>3, <2>3, <2>11, <3>1
    <3>2. CASE fd # UW /\ fd # UR
      <4>1. t.info[fd] = r.info[fd] /\ fd \in Listeners
        BY <2>2, <2>11, <2>13, <3>2 DEF IsRegistered
      <4> QED
        BY <1>3, <2>2, <4>1
    <3> QED
      BY <3>1, <3>2
  <2> QED
    BY <2>1, <2>9, <2>12, <2>13 DEF Wired
<1>5. Adding(reg, kern, current, accepting)
  BY <1>1 DEF Adding
<1>6. Nested(stack, reg, current, accepting) /\ Unsent(stack) = 0
  <2>1. <<>> \in Seq(Frame)
    OBVIOUS
  <2>2. Waiting(<<>>)
    BY <2>1 DEF Waiting
  <2> QED
    BY <1>1, <2>2, Settled, UnsentEmpty
<1>7. batch \in [err : SUBSET Events, cb : SUBSET Events]
  BY <1>1 DEF EmptyBatch
<1>8. MaxPackets \in Nat /\ 0 \in Packets
  BY ProxyAssumption
<1>9. Scalars
  <2>1. sent \in [Fds -> Packets]
    BY <1>1, <1>8
  <2>2. left \in Nat /\ stamp \in Nat /\ uniq_pkt_sent_id \in Nat \ {0}
    BY <1>1, <1>8
  <2>3. is_rdy \in BOOLEAN
    BY <1>1
  <2>4. /\ current \in Fds \cup {NoFd} /\ accepting \in Fds \cup {NoFd}
        /\ algo \in Algos /\ fate \in {"run", "exit", "dangling", "crash"}
    BY <1>1
  <2> QED
    BY <2>1, <2>2, <2>3, <2>4 DEF Scalars
<1>10. /\ stamp + left + kern.rx[UdpSock] <= MaxPackets
       /\ uniq_pkt_sent_id + Unsent(stack) <= stamp + 1
  BY <1>1, <1>3, <1>6, <1>8
<1> QED
  BY <1>2, <1>3, <1>4, <1>5, <1>6, <1>7, <1>9, <1>10 DEF IInv

-----------------------------------------------------------------------------
(* The theorems.                                                           *)

LEMMA StutterKeeps == ASSUME IInv, UNCHANGED vars PROVE IInv'
<1>1. /\ algo' = algo /\ uniq_pkt_sent_id' = uniq_pkt_sent_id /\ pool' = pool /\ reg' = reg
      /\ stack' = stack /\ current' = current /\ accepting' = accepting /\ batch' = batch
      /\ is_rdy' = is_rdy /\ stamp' = stamp /\ sent' = sent /\ fate' = fate
      /\ kern' = kern /\ left' = left
  BY DEF vars, app_ctx
<1>2. Scalars'
  BY <1>1, IInvIs DEF Scalars
<1>3. Wired(reg', kern') /\ Adding(reg', kern', current', accepting')
      /\ Nested(stack', reg', current', accepting')
  BY <1>1, IInvIs
<1>4. uniq_pkt_sent_id' + Unsent(stack') <= stamp' + 1
  BY <1>1, IInvIs
<1> QED
  BY <1>1, <1>2, <1>3, <1>4, IInvIs DEF IInv

(* However handlers nest, sockets break and events go stale, what the proofs *)
(* below rest on holds in every state of a server.                         *)
THEOREM Invariance == Spec => []IInv
<1>1. Init => IInv
  BY InitKeeps
<1>2. IInv /\ [Next]_vars => IInv'
  <2> SUFFICES ASSUME IInv, [Next]_vars PROVE IInv'
    OBVIOUS
  <2>1. CASE Poll
    BY <2>1, PollKeeps
  <2>2. CASE HandleError
    BY <2>2, HandleErrorKeeps
  <2>3. CASE HandleEvent
    BY <2>3, HandleEventKeeps
  <2>4. CASE TcpCoNone
    BY <2>4, TcpCoNoneKeeps
  <2>5. CASE TcpCo
    BY <2>5, TcpCoKeeps
  <2>6. CASE TcpCoWriter
    BY <2>6, TcpCoWriterKeeps
  <2>7. CASE TcpRead
    BY <2>7, TcpReadKeeps
  <2>8. CASE UdpRead
    BY <2>8, UdpReadKeeps
  <2>9. CASE Dup2Link
    BY <2>9, Dup2LinkKeeps
  <2>10. CASE Dup2Done
    BY <2>10, Dup2DoneKeeps
  <2>11. CASE LightningSend
    BY <2>11, LightningSendKeeps
  <2>12. CASE LightningDone
    BY <2>12, LightningDoneKeeps
  <2>13. CASE TcpWrite
    BY <2>13, TcpWriteKeeps
  <2>14. CASE UdpWrite
    BY <2>14, UdpWriteKeeps
  <2>15. CASE Env
    BY <2>15, EnvKeeps
  <2>16. CASE UNCHANGED vars
    BY <2>16, StutterKeeps
  <2> QED
    BY <2>1, <2>2, <2>3, <2>4, <2>5, <2>6, <2>7, <2>8, <2>9, <2>10, <2>11, <2>12, <2>13,
       <2>14, <2>15, <2>16 DEF Next, Step
<1> QED
  BY <1>1, <1>2, PTL DEF Spec

(* The types, and that lightning never numbers more datagrams than were    *)
(* read, although it advances its counter only after the sending.          *)
THEOREM TypeCorrect == Spec => []TypeOK
<1>1. IInv => TypeOK
  <2> SUFFICES ASSUME IInv PROVE TypeOK
    OBVIOUS
  <2>1. stack \in Seq(Frame)
    BY IInvIs DEF Nested
  <2>2. Unsent(stack) \in Nat
    BY <2>1, UnsentEmpty, UnsentPopped
  <2>3. uniq_pkt_sent_id \in 1 .. (stamp + 1)
    BY <2>2, IInvIs
  <2>4. left \in 0 .. MaxPackets /\ stamp \in 0 .. MaxPackets
    BY IInvIs
  <2>5. pool \in Pool /\ reg \in Registry
    BY IInvIs, WiredIs DEF Sound
  <2> QED
    BY <2>1, <2>3, <2>4, <2>5, IInvIs DEF TypeOK
<1> QED
  BY <1>1, Invariance, PTL

(* However the handlers nest, whichever of them fails on the way, and       *)
(* whatever a new fdinfo finds under its number, every buffer is in one     *)
(* place: the moves of algo_utils.c lose none and share none.              *)
THEOREM BuffersStayAccounted == Spec => []BuffersAccounted
<1>1. IInv => BuffersAccounted
  BY DEF IInv, Sound, BuffersAccounted
<1> QED
  BY <1>1, Invariance, PTL

(* No lookup of a server leads to a freed fdinfo, and what is registered is *)
(* open, also while tcp_co registers one descriptor of a connection and has *)
(* not yet registered the other.                                           *)
THEOREM RegistryStaysConsistent == Spec => []RegistryConsistent
<1>1. IInv => RegistryConsistent
  BY IInvIs, WiredIs DEF RegistryConsistent, Registered, SockOf
<1> QED
  BY <1>1, Invariance, PTL
-----------------------------------------------------------------------------
(* What a reader finds in its buffer, and what is kept for a link.         *)

(* fd holds a packet. *)
Full(p, fd) == p.used[fd] # NoBuffer /\ p.pkt[p.used[fd]] # Blank

(* q leaves fd nothing that p did not. *)
NoMore(p, q, fd) ==
  /\ q.writeWaiting[fd] = p.writeWaiting[fd] \/ q.writeWaiting[fd] = <<>>
  /\ q.used[fd] = p.used[fd] \/ q.used[fd] = NoBuffer
  /\ q.used[fd] # NoBuffer =>
       q.pkt[q.used[fd]] = p.pkt[q.used[fd]] \/ q.pkt[q.used[fd]] = Blank

LEMMA NoMoreSame ==
  ASSUME NEW p, NEW fd
  PROVE  NoMore(p, p, fd)
  BY DEF NoMore

LEMMA NoMoreThen ==
  ASSUME NEW p, NEW q, NEW s, NEW fd, NoMore(p, q, fd), NoMore(q, s, fd)
  PROVE  NoMore(p, s, fd)
  BY DEF NoMore

LEMMA GetReadLeaves ==
  ASSUME NEW p, Sound(p), NEW fd \in Fds, NEW q, q = get_read_buffer(p, fd)
  PROVE  /\ \A g \in Fds \ {fd} : NoMore(p, q, g)
         /\ q.writeWaiting = p.writeWaiting
<1>1. p.used \in [Fds -> Buffers \cup {NoBuffer}] /\ p \in Pool
  BY SoundIs
<1>2. CASE p.used[fd] # NoBuffer
  BY <1>2 DEF get_read_buffer, NoMore
<1>3. CASE p.used[fd] = NoBuffer /\ p.free = <<>>
  <2>1. q = [p EXCEPT !.readWaiting = Append(p.readWaiting, fd)]
    BY <1>3 DEF get_read_buffer
  <2>2. q.used = p.used /\ q.pkt = p.pkt /\ q.writeWaiting = p.writeWaiting
    BY <1>1, <2>1 DEF Pool
  <2> QED
    BY <2>2 DEF NoMore
<1>4. CASE p.used[fd] = NoBuffer /\ p.free # <<>>
  <2>1. q = [p EXCEPT !.used[fd] = Head(p.free), !.free = Tail(p.free)]
    BY <1>4 DEF get_read_buffer
  <2>2. q.used = [p.used EXCEPT ![fd] = Head(p.free)] /\ q.pkt = p.pkt
        /\ q.writeWaiting = p.writeWaiting
    BY <1>1, <2>1 DEF Pool
  <2>3. \A g \in Fds \ {fd} : q.used[g] = p.used[g]
    BY <1>1, <2>2
  <2> QED
    BY <2>2, <2>3 DEF NoMore
<1> QED
  BY <1>2, <1>3, <1>4

LEMMA GetWriteLeaves ==
  ASSUME NEW p, Sound(p), NEW fd \in Fds, NEW q, q = get_write_buffer(p, fd)
  PROVE  /\ \A g \in Fds \ {fd} : NoMore(p, q, g)
         /\ \/ q = p
            \/ /\ p.used[fd] = NoBuffer /\ q.used[fd] # NoBuffer
               /\ p.writeWaiting[fd] # <<>>
               /\ q.writeWaiting[fd] = Tail(p.writeWaiting[fd])
         /\ q.used[fd] = NoBuffer => p.writeWaiting[fd] = <<>>
<1>1. p.used \in [Fds -> Buffers \cup {NoBuffer}] /\ p \in Pool
      /\ p.writeWaiting \in [Fds -> Seq(Buffers)] /\ NoBuffer \notin Buffers
  BY SoundIs
<1>2. CASE p.used[fd] # NoBuffer \/ p.writeWaiting[fd] = <<>>
  <2>1. q = p
    BY <1>2 DEF get_write_buffer
  <2> QED
    BY <1>2, <2>1, NoMoreSame
<1>3. CASE ~ (p.used[fd] # NoBuffer \/ p.writeWaiting[fd] = <<>>)
  <2> DEFINE b == Head(p.writeWaiting[fd])
             t == Tail(p.writeWaiting[fd])
  <2>1. q = [p EXCEPT !.used[fd] = b, !.writeWaiting[fd] = t]
    BY <1>3 DEF get_write_buffer
  <2>2. b \in Buffers
    BY <1>1, <1>3
  <2> HIDE DEF b, t
  <2>3. q.used = [p.used EXCEPT ![fd] = b] /\ q.pkt = p.pkt
        /\ q.writeWaiting = [p.writeWaiting EXCEPT ![fd] = t]
    BY <1>1, <2>1 DEF Pool
  <2>4. /\ q.used[fd] = b /\ q.writeWaiting[fd] = t
        /\ \A g \in Fds \ {fd} : q.used[g] = p.used[g] /\ q.writeWaiting[g] = p.writeWaiting[g]
    BY <1>1, <2>3
  <2>5. \A g \in Fds \ {fd} : NoMore(p, q, g)
    BY <2>3, <2>4 DEF NoMore
  <2> QED
    BY <1>1, <1>3, <2>2, <2>4, <2>5 DEF t
<1> QED
  BY <1>2, <1>3

LEMMA ReadToFreeLeaves ==
  ASSUME NEW p, Sound(p), NEW fd \in Fds, NEW q, q = mv_buffer_rtof(p, fd)
  PROVE  /\ \A g \in Fds : NoMore(p, q, g)
         /\ q.used[fd] = NoBuffer /\ q.writeWaiting = p.writeWaiting
<1>1. p.used \in [Fds -> Buffers \cup {NoBuffer}] /\ p \in Pool
      /\ p.pkt \in [Buffers -> Packets \cup {Blank}] /\ NoBuffer \notin Buffers
  BY SoundIs
<1>2. CASE p.used[fd] = NoBuffer
  BY <1>2, NoMoreSame DEF mv_buffer_rtof
<1>3. CASE p.used[fd] # NoBuffer
  <2> DEFINE b == p.used[fd]
             f == Append(p.free, b)
             u == [p.used EXCEPT ![fd] = NoBuffer]
             m == [p.pkt EXCEPT ![b] = Blank]
  <2>1. q = [p EXCEPT !.used = u, !.free = f, !.pkt = m]
    BY <1>3 DEF mv_buffer_rtof, push_to_free
  <2>2. b \in Buffers
    BY <1>1, <1>3
  <2>3. u[fd] = NoBuffer /\ \A g \in Fds : u[g] = p.used[g] \/ u[g] = NoBuffer
    BY <1>1
  <2>4. \A c \in Buffers : m[c] = p.pkt[c] \/ m[c] = Blank
    BY <1>1
  <2>a. \A g \in Fds : u[g] \in Buffers \cup {NoBuffer}
    BY <1>1
  <2> HIDE DEF b, f, u, m
  <2>5. q.used = u /\ q.pkt = m /\ q.writeWaiting = p.writeWaiting
    BY <1>1, <2>1 DEF Pool
  <2> QED
    BY <2>3, <2>4, <2>5, <2>a DEF NoMore
<1> QED
  BY <1>2, <1>3

LEMMA ReadToWriteLeaves ==
  ASSUME NEW p, Sound(p), NEW fd \in Fds, NEW to \in Fds, NEW q, q = mv_buffer_rtow(p, fd, to)
  PROVE  /\ \A g \in Fds \ {to} : NoMore(p, q, g)
         /\ q.used[fd] = NoBuffer
         /\ p.used[to] = NoBuffer => q.used[to] = NoBuffer
         /\ p.writeWaiting[to] = <<>> => Len(q.writeWaiting[to]) = 1
<1>1. p.used \in [Fds -> Buffers \cup {NoBuffer}] /\ p \in Pool
      /\ p.writeWaiting \in [Fds -> Seq(Buffers)]
  BY SoundIs
<1> DEFINE w == Append(p.writeWaiting[to], p.used[fd])
<1>2. q = [p EXCEPT !.used[fd] = NoBuffer, !.writeWaiting[to] = w]
  BY DEF mv_buffer_rtow
<1>3. p.writeWaiting[to] = <<>> => Len(w) = 1
  OBVIOUS
<1> HIDE DEF w
<1>4. q.used = [p.used EXCEPT ![fd] = NoBuffer] /\ q.pkt = p.pkt
      /\ q.writeWaiting = [p.writeWaiting EXCEPT ![to] = w]
  BY <1>1, <1>2 DEF Pool
<1>5. /\ q.used[fd] = NoBuffer /\ \A g \in Fds : q.used[g] = p.used[g] \/ q.used[g] = NoBuffer
      /\ q.writeWaiting[to] = w /\ \A g \in Fds \ {to} : q.writeWaiting[g] = p.writeWaiting[g]
  BY <1>1, <1>4
<1>6. \A g \in Fds \ {to} : NoMore(p, q, g)
  BY <1>4, <1>5 DEF NoMore
<1>7. p.used[to] = NoBuffer => q.used[to] = NoBuffer
  BY <1>5
<1> QED
  BY <1>3, <1>5, <1>6, <1>7

(* The free buffer that takes a copy is not one that somebody reads into. *)
LEMMA NotUsed ==
  ASSUME NEW p, Sound(p), p.free # <<>>, NEW g \in Fds
  PROVE  p.used[g] # Head(p.free)
<1>1. Head(p.free) \in Buffers /\ Place(p, Head(p.free), "free", 0)
  BY HeadFree
<1>2. p.used[g] = Head(p.free) => "free" = "used"
  BY <1>1, OnlyThere
<1> QED
  BY <1>2

LEMMA DupToWriteLeaves ==
  ASSUME NEW p, Sound(p), p.free # <<>>, NEW b, NEW to \in Fds,
         NEW q, q = dup_buffer_tow(p, b, to)
  PROVE  /\ \A g \in Fds \ {to} : NoMore(p, q, g)
         /\ q.used = p.used
         /\ p.writeWaiting[to] = <<>> => Len(q.writeWaiting[to]) = 1
<1>1. p \in Pool /\ p.writeWaiting \in [Fds -> Seq(Buffers)]
      /\ p.pkt \in [Buffers -> Packets \cup {Blank}]
      /\ p.used \in [Fds -> Buffers \cup {NoBuffer}]
  BY SoundIs
<1> DEFINE h == Head(p.free)
           t == Tail(p.free)
           w == Append(p.writeWaiting[to], h)
           m == [p.pkt EXCEPT ![h] = p.pkt[b]]
           u == [p.writeWaiting EXCEPT ![to] = w]
<1>2. q = [p EXCEPT !.free = t, !.writeWaiting = u, !.pkt = m]
  BY DEF dup_buffer_tow, inject_buffer_tow
<1>3. p.writeWaiting[to] = <<>> => Len(w) = 1
  OBVIOUS
<1>4. h \in Buffers /\ \A g \in Fds : p.used[g] # h
  BY HeadFree, NotUsed
<1>5. \A c : c \in Buffers /\ c # h => m[c] = p.pkt[c]
  BY <1>1
<1>6. u[to] = w /\ \A g \in Fds \ {to} : u[g] = p.writeWaiting[g]
  BY <1>1
<1> HIDE DEF h, t, w, m, u
<1>7. q.used = p.used /\ q.pkt = m /\ q.writeWaiting = u
  BY <1>1, <1>2 DEF Pool
<1>8. \A g \in Fds : p.used[g] # NoBuffer => m[p.used[g]] = p.pkt[p.used[g]]
  BY <1>1, <1>4, <1>5
<1>9. \A g \in Fds \ {to} : NoMore(p, q, g)
  BY <1>6, <1>7, <1>8 DEF NoMore
<1> QED
  BY <1>3, <1>6, <1>7, <1>9

LEMMA DupToAppLeaves ==
  ASSUME NEW p, Sound(p), p.free # <<>>, NEW b, NEW key, NEW q, q = dup_buffer_toa(p, b, key)
  PROVE  /\ \A g \in Fds : NoMore(p, q, g)
         /\ q.used = p.used /\ q.writeWaiting = p.writeWaiting
<1>1. p \in Pool /\ p.pkt \in [Buffers -> Packets \cup {Blank}]
      /\ p.used \in [Fds -> Buffers \cup {NoBuffer}]
  BY SoundIs
<1> DEFINE h == Head(p.free)
           t == Tail(p.free)
           a == p.app \cup {<<key, h>>}
           m == [p.pkt EXCEPT ![h] = p.pkt[b]]
<1>2. q = [p EXCEPT !.free = t, !.app = a, !.pkt = m]
  BY DEF dup_buffer_toa
<1>3. h \in Buffers /\ \A g \in Fds : p.used[g] # h
  BY HeadFree, NotUsed
<1>4. \A c : c \in Buffers /\ c # h => m[c] = p.pkt[c]
  BY <1>1
<1> HIDE DEF h, t, a, m
<1>5. q.used = p.used /\ q.pkt = m /\ q.writeWaiting = p.writeWaiting
  BY <1>1, <1>2 DEF Pool
<1>6. \A g \in Fds : p.used[g] # NoBuffer => m[p.used[g]] = p.pkt[p.used[g]]
  BY <1>1, <1>3, <1>4
<1> QED
  BY <1>5, <1>6 DEF NoMore

LEMMA AppToFreeLeaves ==
  ASSUME NEW p, Sound(p), NEW key, NEW q, q = mv_buffer_atof(p, key)
  PROVE  /\ \A g \in Fds : NoMore(p, q, g)
         /\ q.used = p.used /\ q.writeWaiting = p.writeWaiting
<1>1. p \in Pool /\ p.pkt \in [Buffers -> Packets \cup {Blank}]
      /\ p.used \in [Fds -> Buffers \cup {NoBuffer}]
  BY SoundIs
<1> DEFINE h == CHOOSE c \in Buffers : <<key, c>> \in p.app
           f == Append(p.free, h)
           m == [p.pkt EXCEPT ![h] = Blank]
<1>2. q = [p EXCEPT !.app = p.app \ {<<key, h>>}, !.free = f, !.pkt = m]
  BY <1>1 DEF mv_buffer_atof, push_to_free, Pool
<1> HIDE DEF h
<1>3. \A c \in Buffers : m[c] = p.pkt[c] \/ m[c] = Blank
  BY <1>1
<1> HIDE DEF f, m
<1>4. q.used = p.used /\ q.pkt = m /\ q.writeWaiting = p.writeWaiting
  BY <1>1, <1>2 DEF Pool
<1>5. \A g \in Fds : p.used[g] # NoBuffer => p.used[g] \in Buffers
  BY <1>1
<1> QED
  BY <1>3, <1>4, <1>5 DEF NoMore

(* Nobody else holds the buffer that is filled. *)
LEMMA FilledLeaves ==
  ASSUME NEW p, Sound(p), NEW fd \in Fds, p.used[fd] # NoBuffer, NEW x, NEW q,
         q = FillBuffer(p, fd, x)
  PROVE  /\ \A g \in Fds \ {fd} : NoMore(p, q, g)
         /\ q.used = p.used /\ q.writeWaiting = p.writeWaiting
<1>1. p \in Pool /\ p.pkt \in [Buffers -> Packets \cup {Blank}]
      /\ p.used \in [Fds -> Buffers \cup {NoBuffer}]
  BY SoundIs
<1> DEFINE b == p.used[fd]
           m == [p.pkt EXCEPT ![b] = x]
<1>2. q = [p EXCEPT !.pkt = m]
  BY DEF FillBuffer
<1>3. \A g \in Fds \ {fd} : p.used[g] # b
  BY DEF Sound, PoolInv, NoDuplicates
<1>4. \A c \in Buffers : c # b => m[c] = p.pkt[c]
  BY <1>1
<1> HIDE DEF b, m
<1>5. q.used = p.used /\ q.pkt = m /\ q.writeWaiting = p.writeWaiting
  BY <1>1, <1>2 DEF Pool
<1>6. \A g \in Fds : p.used[g] # NoBuffer => p.used[g] \in Buffers
  BY <1>1
<1> QED
  BY <1>3, <1>4, <1>5, <1>6 DEF NoMore

LEMMA WaiterLeaves ==
  ASSUME NEW p, Sound(p), NEW q, q = PopWaiter(p) \/ \E fd : q = ForgetFd(p, fd)
  PROVE  /\ \A g \in Fds : NoMore(p, q, g)
         /\ q.used = p.used /\ q.writeWaiting = p.writeWaiting
<1>1. p \in Pool
  BY SoundIs
<1>2. \E w : q = [p EXCEPT !.readWaiting = w]
  BY DEF PopWaiter, ForgetFd
<1>3. q.used = p.used /\ q.pkt = p.pkt /\ q.writeWaiting = p.writeWaiting
  BY <1>1, <1>2 DEF Pool
<1> QED
  BY <1>3 DEF NoMore

LEMMA ReleasedLeaves ==
  ASSUME NEW p, Sound(p), NEW fd \in Fds, NEW q, q = ReleaseAll(p, fd)
  PROVE  /\ \A g \in Fds : NoMore(p, q, g)
         /\ q.used[fd] = NoBuffer /\ q.writeWaiting[fd] = <<>>
<1>1. p \in Pool /\ p.pkt \in [Buffers -> Packets \cup {Blank}]
      /\ p.used \in [Fds -> Buffers \cup {NoBuffer}]
      /\ p.writeWaiting \in [Fds -> Seq(Buffers)]
  BY SoundIs
<1> DEFINE held  == IF p.used[fd] = NoBuffer THEN <<>> ELSE <<p.used[fd]>>
           given == held \o p.writeWaiting[fd]
           u == [p.used EXCEPT ![fd] = NoBuffer]
           w == [p.writeWaiting EXCEPT ![fd] = <<>>]
           f == p.free \o given
           m == [b \in Buffers |-> IF \E i \in DOMAIN given : given[i] = b
                                   THEN Blank ELSE p.pkt[b]]
           r == WithoutAll(p.readWaiting, fd)
<1>2. q = [p EXCEPT !.used = u, !.writeWaiting = w, !.free = f, !.pkt = m, !.readWaiting = r]
  BY DEF ReleaseAll
<1>3. \A g \in Fds : u[g] = p.used[g] \/ u[g] = NoBuffer
  BY <1>1
<1>4. \A g \in Fds : w[g] = p.writeWaiting[g] \/ w[g] = <<>>
  BY <1>1
<1>5. \A c \in Buffers : m[c] = p.pkt[c] \/ m[c] = Blank
  OBVIOUS
<1>6. (\A g \in Fds : u[g] # NoBuffer => u[g] \in Buffers) /\ u[fd] = NoBuffer /\ w[fd] = <<>>
  BY <1>1
<1> HIDE DEF u, w, f, m, r
<1>7. q.used = u /\ q.pkt = m /\ q.writeWaiting = w
  BY <1>1, <1>2 DEF Pool
<1> QED
  BY <1>3, <1>4, <1>5, <1>6, <1>7 DEF NoMore

LEMMA AdoptedLeaves ==
  ASSUME NEW p, Sound(p), NEW fd \in Fds, NEW inherit, NEW q, q = AdoptFd(p, fd, inherit)
  PROVE  \A g \in Fds : NoMore(p, q, g)
<1>1. p \in Pool /\ p.used \in [Fds -> Buffers \cup {NoBuffer}]
      /\ p.writeWaiting \in [Fds -> Seq(Buffers)]
  BY SoundIs
<1>2. CASE inherit
  BY <1>2, NoMoreSame DEF AdoptFd
<1>3. CASE ~ inherit
  <2> DEFINE u == [p.used EXCEPT ![fd] = NoBuffer]
             w == [p.writeWaiting EXCEPT ![fd] = <<>>]
             o == p.orphaned \cup ({p.used[fd]} \ {NoBuffer}) \cup ToSet(p.writeWaiting[fd])
  <2>1. q = [p EXCEPT !.used = u, !.writeWaiting = w, !.orphaned = o]
    BY <1>3 DEF AdoptFd
  <2>2. \A g \in Fds : u[g] = p.used[g] \/ u[g] = NoBuffer
    BY <1>1
  <2>3. \A g \in Fds : w[g] = p.writeWaiting[g] \/ w[g] = <<>>
    BY <1>1
  <2> HIDE DEF u, w, o
  <2>4. q.used = u /\ q.pkt = p.pkt /\ q.writeWaiting = w
    BY <1>1, <2>1 DEF Pool
  <2> QED
    BY <2>2, <2>3, <2>4 DEF NoMore
<1> QED
  BY <1>2, <1>3

-----------------------------------------------------------------------------
(* The second invariant.                                                   *)

Reads(r, fd)  == IsRegistered(r, fd) /\ r.info[fd].cat \in Readers
Writes(r, fd) == IsRegistered(r, fd) /\ r.info[fd].cat = "tcp-write"

(* A call of dup2 or of lightning is sending what is in buffer b of fd.    *)
Sends(st, b, fd) ==
  \E i \in 1 .. Len(st) : st[i].pc \in Loops /\ st[i].fd = fd /\ st[i].bp = b

(* The call that evt_core_add_fd makes for the reading side runs. *)
Greets(st, acc, fd) ==
  acc # NoFd /\ st # <<>> /\ Head(st).pc = "tcp-read" /\ Head(st).fd = fd /\ ~ Head(st).zero

(* A reader gives its packet away before its call is over. *)
Clean(p, r, st, acc) ==
  \A fd \in Fds : Reads(r, fd) /\ Full(p, fd) =>
    Sends(st, p.used[fd], fd) \/ Greets(st, acc, fd)

Writing(st, fd) == st # <<>> /\ Head(st).pc = "tcp-write" /\ Head(st).fd = fd

(* fd has nothing to send, but for one packet that it is called for.       *)
Drops(p, r, st, fd) ==
  \/ p.writeWaiting[fd] = <<>> /\ (Writes(r, fd) => p.used[fd] = NoBuffer)
  \/ /\ Writing(st, fd)
     /\ p.writeWaiting[fd] = <<>> \/ (p.used[fd] = NoBuffer /\ Len(p.writeWaiting[fd]) = 1)

Boot == WaitBootstrap /\ ~ is_rdy

First(st) == st # <<>> /\ Head(st).pc = "tcp-listen" => Tail(st) = <<>>

Sided(r) ==
  \A fd \in ConnFds : IsRegistered(r, fd) => r.info[fd].cat \in {"tcp-read", "tcp-write"}

Orderly ==
  /\ fate = "run" => /\ Clean(pool, reg, stack, accepting)
                     /\ Boot => \A fd \in ConnFds : Drops(pool, reg, stack, fd)
  /\ First(stack) /\ Sided(reg)
  /\ Boot => \A fd \in ConnFds : sent[fd] = 0

LEMMA ConnFdsAre ==
  /\ ConnFds \subseteq Fds /\ UR \notin ConnFds /\ UW \notin ConnFds
  /\ \A fd \in ConnFds : fd \notin Listeners
<1>1. NPorts \in Nat \ {0} /\ MaxConns \in Nat /\ Fds = 1 .. (2 + NPorts + 2 * MaxConns)
  BY NumbersAre
<1> QED
  BY <1>1 DEF ConnFds, UR, UW, Listeners, Listen, Ports

(* What a step has to leave of fd, in one of two ways: no more than there   *)
(* was, or just what is allowed.                                           *)
Remains(fd) == IsRegistered(reg', fd) => IsRegistered(reg, fd) /\ reg'.info[fd] = reg.info[fd]

Spared(fd) ==
  /\ NoMore(pool, pool', fd) /\ Remains(fd)
  /\ \A b : Sends(stack, b, fd) => Sends(stack', b, fd)
  /\ ~ Greets(stack, accepting, fd) /\ ~ Writing(stack, fd)

Tidy(fd) ==
  /\ Reads(reg', fd) /\ Full(pool', fd) =>
       Sends(stack', pool'.used[fd], fd) \/ Greets(stack', accepting', fd)
  /\ Boot' /\ fd \in ConnFds => Drops(pool', reg', stack', fd)

LEMMA SparedIsTidy ==
  ASSUME Orderly, fate = "run", Boot' => Boot, NEW fd \in Fds, Spared(fd)
  PROVE  Tidy(fd)
<1>1. Remains(fd) /\ NoMore(pool, pool', fd) /\ ~ Greets(stack, accepting, fd)
      /\ ~ Writing(stack, fd) /\ \A b : Sends(stack, b, fd) => Sends(stack', b, fd)
  BY DEF Spared
<1>2. Clean(pool, reg, stack, accepting)
      /\ (Boot => \A g \in ConnFds : Drops(pool, reg, stack, g))
  BY DEF Orderly
<1>3. ASSUME Reads(reg', fd), Full(pool', fd) PROVE Sends(stack', pool'.used[fd], fd)
  <2>1. Reads(reg, fd)
    BY <1>1, <1>3 DEF Reads, Remains
  <2>2. pool'.used[fd] = pool.used[fd] /\ Full(pool, fd)
    BY <1>1, <1>3 DEF Full, NoMore
  <2> QED
    BY <1>1, <1>2, <2>1, <2>2 DEF Clean
<1>4. ASSUME Boot', fd \in ConnFds PROVE Drops(pool', reg', stack', fd)
  <2>1. pool.writeWaiting[fd] = <<>> /\ (Writes(reg, fd) => pool.used[fd] = NoBuffer)
    BY <1>1, <1>2, <1>4 DEF Drops
  <2>2. pool'.writeWaiting[fd] = <<>> /\ (Writes(reg', fd) => pool'.used[fd] = NoBuffer)
    BY <1>1, <2>1 DEF NoMore, Writes, Remains
  <2> QED
    BY <2>2 DEF Drops
<1> QED
  BY <1>3, <1>4 DEF Tidy

LEMMA StaysOrderly ==
  ASSUME Orderly, fate = "run", Boot' => Boot, First(stack'), Sided(reg'),
         Boot' => \A fd \in ConnFds : sent'[fd] = 0,
         fate' = "run" => \A fd \in Fds : Spared(fd) \/ Tidy(fd)
  PROVE  Orderly'
<1>1. ASSUME fate' = "run", NEW fd \in Fds PROVE Tidy(fd)
  BY <1>1, SparedIsTidy
<1>2. fate' = "run" => Clean(pool', reg', stack', accepting')
  BY <1>1 DEF Clean, Tidy
<1>3. fate' = "run" /\ Boot' => \A fd \in ConnFds : Drops(pool', reg', stack', fd)
  BY <1>1, ConnFdsAre DEF Tidy
<1> QED
  BY <1>2, <1>3 DEF Orderly

(* How the calls in progress change: the one on top is over, or replaced,   *)
(* or the process ends.                                                    *)
Moves ==
  \/ stack' = Tail(stack)
  \/ \E f \in Frame : f.pc # "tcp-listen" /\ stack' = <<f>> \o Tail(stack)
  \/ Tail(stack) = <<>> /\ \E f \in Frame : stack' = <<f>>
  \/ fate' # "run" /\ stack' = stack

LEMMA SendsPushed ==
  ASSUME NEW st \in Seq(Frame), NEW f \in Frame, NEW b, NEW fd
  PROVE  /\ Sends(st, b, fd) => Sends(<<f>> \o st, b, fd)
         /\ f.pc \in Loops /\ f.fd = fd /\ f.bp = b => Sends(<<f>> \o st, b, fd)
<1> DEFINE t == <<f>> \o st
<1>1. /\ Head(t) = f /\ t[1] = f /\ Len(t) = Len(st) + 1 /\ Len(st) \in Nat
      /\ \A i \in 1 .. Len(st) : t[i + 1] = st[i]
  BY PushedIs
<1> HIDE DEF t
<1>2. ASSUME Sends(st, b, fd) PROVE Sends(t, b, fd)
  <2>1. PICK i \in 1 .. Len(st) : st[i].pc \in Loops /\ st[i].fd = fd /\ st[i].bp = b
    BY <1>2 DEF Sends
  <2>2. i + 1 \in 1 .. Len(t) /\ t[i + 1] = st[i]
    BY <1>1
  <2> QED
    BY <2>1, <2>2 DEF Sends
<1>3. ASSUME f.pc \in Loops, f.fd = fd, f.bp = b PROVE Sends(t, b, fd)
  <2>1. 1 \in 1 .. Len(t)
    BY <1>1
  <2> QED
    BY <1>1, <1>3, <2>1 DEF Sends
<1> QED
  BY <1>2, <1>3 DEF t

LEMMA SendsBelow ==
  ASSUME NEW st \in Seq(Frame), st # <<>>, NEW b, NEW fd, Sends(st, b, fd)
  PROVE  \/ Head(st).pc \in Loops /\ Head(st).fd = fd /\ Head(st).bp = b
         \/ Sends(Tail(st), b, fd)
<1>1. PICK i \in 1 .. Len(st) : st[i].pc \in Loops /\ st[i].fd = fd /\ st[i].bp = b
  BY DEF Sends
<1>2. /\ Head(st) = st[1] /\ Len(st) \in Nat \ {0} /\ Len(Tail(st)) = Len(st) - 1
      /\ \A j \in 1 .. Len(Tail(st)) : Tail(st)[j] = st[j + 1]
  BY TopIs
<1>3. CASE i = 1
  BY <1>1, <1>2, <1>3
<1>4. CASE i # 1
  <2>1. i - 1 \in 1 .. Len(Tail(st)) /\ (i - 1) + 1 = i
    BY <1>2, <1>4
  <2>2. Tail(st)[i - 1] = st[i]
    BY <1>2, <2>1
  <2> QED
    BY <1>1, <2>1, <2>2 DEF Sends
<1> QED
  BY <1>3, <1>4

LEMMA NothingSent ==
  ASSUME NEW b, NEW fd
  PROVE  ~ Sends(<<>>, b, fd)
  BY DEF Sends

LEMMA AloneIs ==
  ASSUME NEW f
  PROVE  /\ Head(<<f>>) = f /\ <<f>> # <<>> /\ Tail(<<f>>) = <<>>
  OBVIOUS

LEMMA MovesKeep ==
  ASSUME stack # <<>>, stack \in Seq(Frame), Waiting(Tail(stack)), First(stack), Moves
  PROVE  /\ First(stack')
         /\ \A fd, b : /\ fate' = "run" /\ Sends(stack, b, fd)
                       /\ Top.pc \notin Loops \/ Top.fd # fd
                       => Sends(stack', b, fd)
<1> DEFINE tl == Tail(stack)
<1>1. tl \in Seq(Frame) /\ \A i \in 1 .. Len(tl) : Waits(tl[i])
  BY DEF Waiting
<1>2. ASSUME NEW fd, NEW b, Sends(stack, b, fd), Top.pc \notin Loops \/ Top.fd # fd
      PROVE  Sends(tl, b, fd)
  BY <1>2, SendsBelow DEF Top
<1> HIDE DEF tl
<1>3. CASE stack' = tl
  <2>1. ASSUME tl # <<>> PROVE Head(tl).pc # "tcp-listen"
    <3>1. Head(tl) = tl[1] /\ 1 \in 1 .. Len(tl)
      BY <1>1, <2>1
    <3> QED
      BY <1>1, <3>1, NamesAre DEF Waits, Loops
  <2> QED
    BY <1>2, <1>3, <2>1 DEF First
<1>4. ASSUME NEW f \in Frame, f.pc # "tcp-listen", stack' = <<f>> \o tl
      PROVE  /\ First(stack')
             /\ \A fd, b : Sends(tl, b, fd) => Sends(stack', b, fd)
  <2>1. Head(<<f>> \o tl) = f
    BY <1>1, PushedIs
  <2>2. First(stack')
    BY <1>4, <2>1 DEF First
  <2> QED
    BY <1>1, <1>4, <2>2, SendsPushed
<1>5. CASE tl = <<>> /\ \E f \in Frame : stack' = <<f>>
  <2>1. PICK f \in Frame : stack' = <<f>>
    BY <1>5
  <2>2. First(stack')
    BY <2>1, AloneIs DEF First
  <2> QED
    BY <1>2, <1>5, <2>2, NothingSent
<1>6. CASE fate' # "run" /\ stack' = stack
  BY <1>6
<1> QED
  BY <1>2, <1>3, <1>4, <1>5, <1>6 DEF Moves, tl

(* A step of the call on top leaves the others as they are. *)
LEMMA MovesSpare ==
  ASSUME Called, Orderly, Moves, fate' = "run", NEW fd \in Fds,
         Top.fd # fd \/ Top.pc \notin Loops \cup {"tcp-read", "tcp-write"},
         NoMore(pool, pool', fd), Remains(fd)
  PROVE  Spared(fd)
<1>1. stack # <<>> /\ stack \in Seq(Frame) /\ Waiting(Tail(stack)) /\ First(stack)
  BY CalledIs DEF Called, Orderly
<1>2. \A b : Sends(stack, b, fd) => Sends(stack', b, fd)
  BY <1>1, MovesKeep
<1>3. ~ Greets(stack, accepting, fd) /\ ~ Writing(stack, fd)
  BY DEF Greets, Writing, Top
<1> QED
  BY <1>2, <1>3 DEF Spared

LEMMA MovesFirst ==
  ASSUME Called, Orderly, Moves
  PROVE  First(stack')
  BY CalledIs, MovesKeep DEF Called, Orderly

LEMMA ReturnMoves ==
  ASSUME Called, NEW v, Return(v)
  PROVE  Moves /\ accepting' = accepting
<1>1. /\ stack' = IF /\ Len(stack) = 1 /\ accepting = NoFd /\ v = 0
                     /\ IsRegistered(reg', current)
                  THEN <<Callback(reg', current, FALSE)>> ELSE Tail(stack)
      /\ accepting' = accepting
  BY DEF Return
<1>2. CASE /\ Len(stack) = 1 /\ accepting = NoFd /\ v = 0
           /\ IsRegistered(reg', current)
  <2> DEFINE f == Callback(reg', current, FALSE)
  <2>1. stack \in Seq(Frame) /\ stack # <<>> /\ current \in Fds
    BY CalledIs DEF Called
  <2>2. Tail(stack) = <<>>
    <3>1. Tail(stack) \in Seq(Frame) /\ Len(Tail(stack)) = 0
      BY <1>2, <2>1, TopIs
    <3> QED
      BY <3>1, NoneIs
  <2>3. f \in Frame
    <3>1. Wired(reg', kern') /\ current = current
      BY DEF Called
    <3>2. reg'.info[current].cat \in CatNames
      BY <1>2, <2>1, <3>1, WiredIs, NamesAre
    <3>3. <<>> \in Seq(Ports)
      OBVIOUS
    <3> QED
      BY <2>1, <3>2, <3>3 DEF Callback, Frame
  <2>4. stack' = <<f>>
    BY <1>1, <1>2
  <2> HIDE DEF f
  <2> QED
    BY <1>1, <2>2, <2>3, <2>4 DEF Moves
<1>3. CASE ~ (/\ Len(stack) = 1 /\ accepting = NoFd /\ v = 0
              /\ IsRegistered(reg', current))
  <2>1. stack' = Tail(stack)
    BY <1>1, <1>3
  <2> QED
    BY <1>1, <2>1 DEF Moves
<1> QED
  BY <1>2, <1>3

LEMMA AnswerMoves ==
  ASSUME Called, NEW v, Answer(v)
  PROVE  Moves /\ accepting' = accepting
  BY ReturnMoves DEF Answer

LEMMA CallMoves ==
  ASSUME Called, NEW f \in Frame, f.pc # "tcp-listen", TailCall(f)
  PROVE  Moves /\ accepting' = accepting /\ Head(stack') = f /\ stack' # <<>>
<1>1. stack' = <<f>> \o Tail(stack) /\ accepting' = accepting
  BY DEF TailCall
<1>2. Tail(stack) \in Seq(Frame)
  BY CalledIs DEF Waiting
<1> QED
  BY <1>1, <1>2, PushedIs DEF Moves

LEMMA CallbackMoves ==
  ASSUME Called, reg' = reg, NEW fd \in Fds, IsRegistered(reg, fd),
         reg.info[fd].cat # "tcp-listen", TailCall(Callback(reg, fd, TRUE))
  PROVE  /\ Moves /\ accepting' = accepting
         /\ Head(stack').pc = reg.info[fd].cat /\ Head(stack').fd = fd /\ stack' # <<>>
<1> DEFINE f == Callback(reg, fd, TRUE)
<1>1. Wired(reg', kern')
  BY DEF Called
<1>2. f \in Frame
  BY <1>1, CallbackRuns
<1>3. f.pc = reg.info[fd].cat /\ f.fd = fd
  BY DEF Callback
<1> HIDE DEF f
<1>4. TailCall(f)
  BY DEF f
<1> QED
  BY <1>2, <1>3, <1>4, CallMoves

LEMMA NotifyMoves ==
  ASSUME Called, reg' = reg, NEW p, Sound(p), notify_read(p)
  PROVE  /\ Moves /\ accepting' = accepting
         /\ \A g \in Fds : NoMore(p, pool', g)
         /\ pool'.used = p.used /\ pool'.writeWaiting = p.writeWaiting
<1>1. CASE p.readWaiting = <<>>
  <2>1. pool' = p /\ Return(0)
    BY <1>1 DEF notify_read
  <2> QED
    BY <2>1, ReturnMoves, NoMoreSame
<1>2. CASE p.readWaiting # <<>>
  <2>1. pool' = PopWaiter(p)
    BY <1>2 DEF notify_read
  <2>2. Head(p.readWaiting) \in Fds \cup {Stale}
    BY <1>2, <2>1, WaiterPopped
  <2>3. PICK n \in IF Head(p.readWaiting) = Stale THEN Fds ELSE {Head(p.readWaiting)} :
               IF IsRegistered(reg, n) /\ reg.info[n].cat \in Readers
               THEN TailCall(Callback(reg, n, TRUE))
               ELSE /\ fate' = "exit"
                    /\ UNCHANGED <<stack, current, accepting>>
    BY <1>2 DEF notify_read
  <2>4. n \in Fds
    BY <2>2
  <2>5. /\ \A g \in Fds : NoMore(p, pool', g)
        /\ pool'.used = p.used /\ pool'.writeWaiting = p.writeWaiting
    BY <2>1, WaiterLeaves
  <2>6. CASE IsRegistered(reg, n) /\ reg.info[n].cat \in Readers
    <3>1. reg.info[n].cat # "tcp-listen"
      BY <2>6 DEF Readers
    <3> QED
      BY <2>3, <2>4, <2>5, <2>6, <3>1, CallbackMoves
  <2>7. CASE ~ (IsRegistered(reg, n) /\ reg.info[n].cat \in Readers)
    <3>1. fate' = "exit" /\ stack' = stack /\ accepting' = accepting
      BY <2>3, <2>7
    <3> QED
      BY <2>5, <3>1 DEF Moves
  <2> QED
    BY <2>6, <2>7
<1> QED
  BY <1>1, <1>2

(* Only to has more than in p, and only a writer: that of the UDP socket,   *)
(* or one that is called for it.                                           *)
Given(p, to) ==
  /\ \A g \in Fds \ {to} : NoMore(p, pool', g)
  /\ to # UW => /\ Writes(reg, to) /\ Writing(stack', to)
                /\ p.used[to] = NoBuffer => pool'.used[to] = NoBuffer
                /\ p.writeWaiting[to] = <<>> => Len(pool'.writeWaiting[to]) = 1

LEMMA GivenIsTidy ==
  ASSUME IInv, Orderly, fate = "run", Boot' => Boot, Top.pc # "tcp-write",
         NEW p, NEW to \in Fds, Remains(to), NoMore(pool, p, to), Given(p, to)
  PROVE  Tidy(to)
<1>1. ~ Reads(reg', to)
  <2>1. reg.info[to].cat \in {"udp-write", "tcp-write"}
    BY IInvIs, WiredIs DEF Given, Writes
  <2> QED
    BY <2>1 DEF Reads, Readers, Remains
<1>2. ASSUME Boot', to \in ConnFds PROVE Drops(pool', reg', stack', to)
  <2>1. to # UW /\ Drops(pool, reg, stack, to)
    BY <1>2, ConnFdsAre DEF Orderly
  <2>2. ~ Writing(stack, to)
    BY DEF Writing, Top
  <2>3. Writes(reg, to)
    BY <2>1 DEF Given
  <2>4. pool.writeWaiting[to] = <<>> /\ pool.used[to] = NoBuffer
    BY <2>1, <2>2, <2>3 DEF Drops
  <2>5. p.writeWaiting[to] = <<>> /\ p.used[to] = NoBuffer
    BY <2>4 DEF NoMore
  <2> QED
    BY <2>1, <2>5 DEF Given, Drops
<1> QED
  BY <1>1, <1>2 DEF Tidy

LEMMA StreamMoves ==
  ASSUME Called, reg' = reg, NEW fd \in Fds, NEW p, Sound(p), on_stream(p, fd)
  PROVE  /\ Moves /\ accepting' = accepting
         /\ Given(p, UW) /\ pool'.used[fd] = NoBuffer
<1>1. CASE pool' = mv_buffer_rtow(p, fd, UW) /\ TailCall(Callback(reg, UW, TRUE))
  <2>1. UW \in Fds /\ IsRegistered(reg, UW) /\ reg.info[UW].cat # "tcp-listen"
    BY NumbersAre, WiredIs DEF Called
  <2>2. (\A g \in Fds \ {UW} : NoMore(p, pool', g)) /\ pool'.used[fd] = NoBuffer
    BY <1>1, <2>1, ReadToWriteLeaves
  <2> QED
    BY <1>1, <2>1, <2>2, CallbackMoves DEF Given
<1>2. CASE pool' = mv_buffer_rtof(p, fd) /\ (Answer(1) \/ Answer(0))
  <2>1. (\A g \in Fds : NoMore(p, pool', g)) /\ pool'.used[fd] = NoBuffer
    BY <1>2, ReadToFreeLeaves
  <2> QED
    BY <1>2, <2>1, AnswerMoves DEF Given
<1> QED
  BY <1>1, <1>2 DEF on_stream

(* What on_datagram leaves of a datagram that fd has read into p, and    *)
(* of the writer that may have it now.                                     *)
Passed(p, fd) ==
  /\ Moves /\ accepting' = accepting
  /\ fate' = "run" =>
       /\ pool'.used[fd] = NoBuffer \/ Sends(stack', pool'.used[fd], fd)
       /\ \E to \in Fds : Given(p, to) /\ (to = UW => NoMore(p, pool', UW))

LEMMA NaivePasses ==
  ASSUME Called, reg' = reg, NEW fd \in Fds, NEW p, Sound(p), NaiveOnDatagram(p, fd)
  PROVE  Passed(p, fd)
<1> DEFINE links == reg.list["tcp-write"]
<1>1. CASE links = <<>>
  <2>1. pool' = mv_buffer_rtof(p, fd) /\ Answer(1)
    BY <1>1 DEF NaiveOnDatagram, mv_buffer_wtof
  <2>2. (\A g \in Fds : NoMore(p, pool', g)) /\ pool'.used[fd] = NoBuffer
    BY <2>1, ReadToFreeLeaves
  <2>3. Moves /\ accepting' = accepting
    BY <2>1, AnswerMoves
  <2> QED
    BY <2>2, <2>3, NumbersAre DEF Given, Passed
<1>2. CASE links # <<>>
  <2>1. pool' = mv_buffer_rtow(p, fd, links[1]) /\ TailCall(Callback(reg, links[1], TRUE))
    BY <1>2 DEF NaiveOnDatagram
  <2>2. Wired(reg, kern') /\ "tcp-write" \in Cats
    BY NamesAre DEF Called
  <2>3. 1 \in 1 .. Len(links)
    <3>1. links \in Seq(Fds)
      BY <2>2, WiredIs
    <3> QED
      BY <1>2, <3>1
  <2>4. links[1] \in Fds /\ IsRegistered(reg, links[1]) /\ reg.info[links[1]].cat = "tcp-write"
    BY <2>2, <2>3, Leads
  <2> DEFINE to == links[1]
  <2> HIDE DEF links
  <2>5. /\ Moves /\ accepting' = accepting /\ Writing(stack', to)
    BY <2>1, <2>4, CallbackMoves DEF Writing
  <2>6. /\ \A g \in Fds \ {to} : NoMore(p, pool', g)
        /\ pool'.used[fd] = NoBuffer
        /\ p.used[to] = NoBuffer => pool'.used[to] = NoBuffer
        /\ p.writeWaiting[to] = <<>> => Len(pool'.writeWaiting[to]) = 1
    BY <2>1, <2>4, ReadToWriteLeaves
  <2>7. Given(p, to)
    BY <2>4, <2>5, <2>6 DEF Given, Writes
  <2>8. to # UW
    BY <2>2, <2>4, WiredIs
  <2> QED
    BY <2>4, <2>5, <2>6, <2>7, <2>8 DEF Passed
<1> QED
  BY <1>1, <1>2

LEMMA SendingIs ==
  ASSUME Called, NEW f \in Frame, f.pc \in Loops, TailCall(f)
  PROVE  Moves /\ accepting' = accepting /\ Sends(stack', f.bp, f.fd)
<1>1. f.pc # "tcp-listen"
  BY DEF Loops
<1>2. stack' = <<f>> \o Tail(stack) /\ Tail(stack) \in Seq(Frame)
  BY CalledIs DEF TailCall, Waiting
<1> QED
  BY <1>1, <1>2, CallMoves, SendsPushed

LEMMA Dup2Passes ==
  ASSUME Called, reg' = reg, NEW fd \in Fds, NEW p, Sound(p), p.used[fd] # NoBuffer,
         Dup2OnDatagram(p, fd)
  PROVE  Passed(p, fd)
<1> DEFINE f == [pc |-> "dup2", fd |-> fd, bp |-> p.used[fd], i |-> 1, links |-> <<>>,
                 zero |-> Top.zero]
<1>1. pool' = p /\ TailCall(f)
  BY DEF Dup2OnDatagram
<1>2. p.used[fd] \in Buffers /\ <<>> \in Seq(Ports) /\ Top.zero \in BOOLEAN
  BY SoundIs, CalledIs DEF Frame
<1>3. f \in Frame /\ f.pc \in Loops /\ f.fd = fd /\ f.bp = p.used[fd]
  BY <1>2 DEF Frame, Loops
<1> HIDE DEF f
<1>4. Moves /\ accepting' = accepting /\ Sends(stack', p.used[fd], fd)
  BY <1>1, <1>3, SendingIs
<1> QED
  BY <1>1, <1>4, NoMoreSame, NumbersAre DEF Given, Passed

LEMMA LightningPasses ==
  ASSUME Called, reg' = reg, NEW fd \in Fds, NEW p, Sound(p), p.used[fd] # NoBuffer,
         uniq_pkt_sent_id \in Nat, LightningOnDatagram(p, fd)
  PROVE  Passed(p, fd)
<1>1. CASE p.free # <<>> /\ HasApp(p, uniq_pkt_sent_id)
  <2>1. fate' = "exit" /\ pool' = p /\ stack' = stack /\ accepting' = accepting
    BY <1>1 DEF LightningOnDatagram
  <2> QED
    BY <2>1 DEF Passed, Moves
<1>2. CASE ~ (p.free # <<>> /\ HasApp(p, uniq_pkt_sent_id))
  <2> DEFINE q   == IF p.free = <<>> THEN p
                    ELSE dup_buffer_toa(p, p.used[fd], uniq_pkt_sent_id)
             old == uniq_pkt_sent_id - NPorts
             Few == {<<>>} \cup {<<l>> : l \in Ports} \cup {<<g, h>> : g \in Ports, h \in Ports}
             f(links) == [pc |-> "lightning", fd |-> fd, bp |-> p.used[fd], i |-> 0,
                          links |-> links, zero |-> Top.zero]
  <2>1. /\ pool' = IF HasApp(q, old) THEN mv_buffer_atof(q, old) ELSE q
        /\ \E links \in Few : TailCall(f(links))
    BY <1>2 DEF LightningOnDatagram
  <2>2. p.used[fd] \in Buffers
    BY SoundIs
  <2>3. Sound(q)
    BY <1>2, <2>2, DupToApp
  <2>4. (\A g \in Fds : NoMore(p, q, g)) /\ q.used = p.used
    BY DupToAppLeaves, NoMoreSame
  <2>5. PICK links \in Few : TailCall(f(links))
    BY <2>1
  <2>6. links \in Seq(Ports)
    <3>1. <<>> \in Seq(Ports) /\ (\A l \in Ports : <<l>> \in Seq(Ports))
          /\ \A g, h \in Ports : <<g, h>> \in Seq(Ports)
      OBVIOUS
    <3>2. links = <<>> \/ (\E l \in Ports : links = <<l>>)
          \/ \E g, h \in Ports : links = <<g, h>>
      OBVIOUS
    <3> HIDE DEF Few, f, q, old
    <3>3. CASE links = <<>>
      BY <3>1, <3>3
    <3>4. CASE \E l \in Ports : links = <<l>>
      BY <3>1, <3>4
    <3>5. CASE \E g, h \in Ports : links = <<g, h>>
      BY <3>1, <3>5
    <3> QED
      BY <3>2, <3>3, <3>4, <3>5
  <2> HIDE DEF q, old, Few
  <2>7. Top.zero \in BOOLEAN
    BY CalledIs DEF Frame
  <2>8. f(links) \in Frame /\ f(links).pc \in Loops /\ f(links).fd = fd
        /\ f(links).bp = p.used[fd]
    BY <2>2, <2>6, <2>7 DEF Frame, Loops
  <2> HIDE DEF f
  <2>9. Moves /\ accepting' = accepting /\ Sends(stack', p.used[fd], fd)
    BY <2>5, <2>8, SendingIs
  <2>10. (\A g \in Fds : NoMore(q, pool', g)) /\ pool'.used = q.used
    BY <2>1, <2>3, AppToFreeLeaves, NoMoreSame
  <2>11. \A g \in Fds : NoMore(p, pool', g)
    BY <2>4, <2>10, NoMoreThen
  <2> QED
    BY <2>4, <2>9, <2>10, <2>11, NumbersAre DEF Given, Passed
<1> QED
  BY <1>1, <1>2

LEMMA DatagramPasses ==
  ASSUME Called, reg' = reg, NEW fd \in Fds, NEW p, Sound(p), p.used[fd] # NoBuffer,
         uniq_pkt_sent_id \in Nat, algo \in Algos, on_datagram(p, fd)
  PROVE  Passed(p, fd)
<1>1. algo = "naive" \/ algo = "dup2" \/ algo = "lightning"
  BY ProxyAssumption
<1>2. CASE algo = "naive"
  BY <1>2, NaivePasses DEF on_datagram
<1>3. CASE algo = "dup2"
  BY <1>3, Dup2Passes DEF on_datagram
<1>4. CASE algo = "lightning"
  BY <1>4, LightningPasses DEF on_datagram
<1> QED
  BY <1>1, <1>2, <1>3, <1>4

LEMMA SidedStays ==
  ASSUME Orderly, \A g \in Fds : Remains(g)
  PROVE  Sided(reg')
  BY ConnFdsAre DEF Orderly, Sided, Remains

LEMMA SameRemains ==
  ASSUME reg'.info = reg.info, NEW g
  PROVE  Remains(g)
  BY DEF Remains, IsRegistered

LEMMA RemovedRemains ==
  ASSUME IInv, NEW p, NEW fd \in Fds, IsRegistered(reg, fd), reg.info[fd].cat # "udp-write",
         rm_fd(p, fd)
  PROVE  ~ IsRegistered(reg', fd) /\ \A g \in Fds : Remains(g)
<1>1. reg' = RmFd(reg, fd) /\ kern \in Kernels /\ Wired(reg, kern)
  BY IInvIs DEF rm_fd
<1>2. ~ IsRegistered(reg', fd) /\ SameBut(reg, reg', fd)
  BY <1>1, RmWired
<1> QED
  BY <1>2 DEF SameBut, Remains

(* A reader has read into q, and only to has more than in q.               *)
LEMMA ReaderStays ==
  ASSUME IInv, Orderly, Called, Moves, accepting' = accepting, is_rdy' = is_rdy, sent' = sent,
         \A g \in Fds : Remains(g),
         NEW fd \in Fds, Top.fd = fd, Top.pc \in Readers, Reads(reg, fd),
         NEW q, \A g \in Fds \ {fd} : NoMore(pool, q, g),
         q.writeWaiting[fd] = pool.writeWaiting[fd],
         fate' = "run" =>
           /\ Full(pool', fd) /\ Reads(reg', fd) => Sends(stack', pool'.used[fd], fd)
           /\ \E to \in Fds : Given(q, to)
  PROVE  Orderly'
<1>1. fate = "run" /\ (Boot' => Boot) /\ Top.pc # "tcp-write"
  BY DEF Called, Boot, Readers
<1>2. First(stack') /\ Sided(reg') /\ (Boot' => \A g \in ConnFds : sent'[g] = 0)
  BY <1>1, MovesFirst, SidedStays DEF Orderly
<1>3. ASSUME fate' = "run", NEW g \in Fds PROVE Spared(g) \/ Tidy(g)
  <2>1. PICK to \in Fds : Given(q, to)
    BY <1>3
  <2>2. to # fd
    <3>1. reg.info[to].cat \in {"udp-write", "tcp-write"}
      BY <2>1, IInvIs, WiredIs DEF Given, Writes
    <3> QED
      BY <3>1 DEF Reads, Readers
  <2>3. CASE g = to
    BY <1>1, <2>1, <2>2, <2>3, GivenIsTidy
  <2>4. CASE g # to /\ g # fd
    <3>1. NoMore(q, pool', g) /\ NoMore(pool, q, g)
      BY <2>1, <2>4 DEF Given
    <3>2. NoMore(pool, pool', g)
      BY <3>1, NoMoreThen
    <3> QED
      BY <1>3, <2>4, <3>2, MovesSpare
  <2>5. CASE g = fd
    <3>1. pool'.writeWaiting[fd] = pool.writeWaiting[fd] \/ pool'.writeWaiting[fd] = <<>>
      BY <2>1, <2>2 DEF Given, NoMore
    <3>2. ASSUME Boot', fd \in ConnFds PROVE Drops(pool', reg', stack', fd)
      <4>1. Drops(pool, reg, stack, fd) /\ ~ Writing(stack, fd)
        BY <1>1, <3>2 DEF Orderly, Writing, Top
      <4>2. pool'.writeWaiting[fd] = <<>>
        BY <3>1, <4>1 DEF Drops
      <4>3. ~ Writes(reg', fd)
        BY DEF Writes, Remains, Reads, Readers
      <4> QED
        BY <4>2, <4>3 DEF Drops
    <3> QED
      BY <1>3, <2>5, <3>2 DEF Tidy
  <2> QED
    BY <2>3, <2>4, <2>5
<1> QED
  BY <1>1, <1>2, <1>3, StaysOrderly

LEMMA TcpReadStays == ASSUME IInv, Orderly, TcpRead PROVE Orderly'
<1> DEFINE fd == Top.fd
           s  == SockOf(fd)
           p  == get_read_buffer(pool, fd)
           b  == p.used[fd]
<1>1. /\ stack # <<>> /\ fate = "run" /\ fd \in Fds /\ Top.pc = "tcp-read"
      /\ IsRegistered(reg, fd) /\ reg.info[fd].cat = "tcp-read" /\ s \in Files
  BY NamesAre, RunningIs DEF TcpRead, SockOf
<1>2. is_rdy' = is_rdy /\ sent' = sent
  BY DEF TcpRead, ReadVars
<1>3. Sound(p)
  BY <1>1, IInvIs, GetRead
<1>4. \/ /\ UNCHANGED <<reg, kern>> /\ pool' = p /\ Answer(1)
         /\ b = NoBuffer \/ p.pkt[b] = Blank
      \/ rm_fd(mv_buffer_rtof(p, fd), fd) /\ Answer(1)
      \/ /\ b # NoBuffer /\ kern.rx[s] > 0 /\ kern' = Consume(s) /\ UNCHANGED reg
         /\ on_stream(FillBuffer(p, fd, Cell), fd)
      \/ b # NoBuffer /\ UNCHANGED <<reg, kern>> /\ on_stream(p, fd)
  BY DEF TcpRead
<1>5. Reads(reg, fd) /\ Top.pc \in Readers /\ UW # fd /\ UW \in Fds
  BY <1>1, IInvIs, WiredIs, NumbersAre DEF Reads, Readers
<1>6. (\A g \in Fds \ {fd} : NoMore(pool, p, g)) /\ p.writeWaiting[fd] = pool.writeWaiting[fd]
  BY <1>1, IInvIs, GetReadLeaves
<1> HIDE DEF fd, s, p, b
<1>7. CASE /\ UNCHANGED <<reg, kern>> /\ pool' = p /\ Answer(1)
           /\ b = NoBuffer \/ p.pkt[b] = Blank
  <2>1. Called
    BY <1>1, <1>7, StillCalled
  <2>2. Moves /\ accepting' = accepting
    BY <1>7, <2>1, AnswerMoves
  <2>3. ~ Full(pool', fd)
    BY <1>7 DEF Full, b
  <2>4. Given(p, UW) /\ \A g \in Fds : Remains(g)
    BY <1>7, NoMoreSame, SameRemains DEF Given
  <2> QED
    BY <1>1, <1>2, <1>5, <1>6, <2>1, <2>2, <2>3, <2>4, ReaderStays DEF fd
<1>8. CASE rm_fd(mv_buffer_rtof(p, fd), fd) /\ Answer(1)
  <2> DEFINE q == mv_buffer_rtof(p, fd)
  <2>1. Sound(q) /\ \A g \in Fds : NoMore(p, q, g)
    BY <1>1, <1>3, ReadToFree, ReadToFreeLeaves
  <2> HIDE DEF q
  <2>2. rm_fd(q, fd)
    BY <1>8 DEF q
  <2>3. Called
    BY <1>1, <2>1, <2>2, Removing
  <2>4. Moves /\ accepting' = accepting
    BY <1>8, <2>3, AnswerMoves
  <2>5. ~ Reads(reg', fd) /\ \A g \in Fds : Remains(g)
    BY <1>1, <2>2, RemovedRemains DEF Reads
  <2>6. \A g \in Fds : NoMore(q, pool', g)
    BY <2>1, <2>2, WaiterLeaves DEF rm_fd
  <2>7. Given(p, UW)
    BY <2>1, <2>6, NoMoreThen DEF Given
  <2> QED
    BY <1>1, <1>2, <1>5, <1>6, <2>3, <2>4, <2>5, <2>7, ReaderStays DEF fd
<1>9. CASE /\ b # NoBuffer /\ kern.rx[s] > 0 /\ kern' = Consume(s) /\ UNCHANGED reg
           /\ on_stream(FillBuffer(p, fd, Cell), fd)
  <2> DEFINE q == FillBuffer(p, fd, Cell)
  <2>1. kern'.sock = kern.sock
    BY <1>1, <1>9, IInvIs, Consuming
  <2>2. Called
    BY <1>1, <1>9, <2>1, StillCalled
  <2>3. Cell \in Packets
    BY ProxyAssumption DEF Cell
  <2>4. Sound(q)
    BY <1>1, <1>3, <1>9, <2>3, Filled DEF b
  <2>5. (\A g \in Fds \ {fd} : NoMore(p, q, g)) /\ q.writeWaiting = p.writeWaiting
    BY <1>1, <1>3, <1>9, FilledLeaves DEF b
  <2> HIDE DEF q
  <2>6. on_stream(q, fd)
    BY <1>9 DEF q
  <2>7. Moves /\ accepting' = accepting /\ Given(q, UW) /\ pool'.used[fd] = NoBuffer
    BY <1>1, <1>9, <2>2, <2>4, <2>6, StreamMoves
  <2>8. ~ Full(pool', fd) /\ \A g \in Fds : Remains(g)
    BY <1>9, <2>7, SameRemains DEF Full
  <2>9. (\A g \in Fds \ {fd} : NoMore(pool, q, g))
        /\ q.writeWaiting[fd] = pool.writeWaiting[fd]
    BY <1>6, <2>5, NoMoreThen
  <2> QED
    BY <1>1, <1>2, <1>5, <2>2, <2>7, <2>8, <2>9, ReaderStays DEF fd
<1>10. CASE b # NoBuffer /\ UNCHANGED <<reg, kern>> /\ on_stream(p, fd)
  <2>1. Called
    BY <1>1, <1>10, StillCalled
  <2>2. Moves /\ accepting' = accepting /\ Given(p, UW) /\ pool'.used[fd] = NoBuffer
    BY <1>1, <1>3, <1>10, <2>1, StreamMoves
  <2>3. ~ Full(pool', fd) /\ \A g \in Fds : Remains(g)
    BY <1>10, <2>2, SameRemains DEF Full
  <2> QED
    BY <1>1, <1>2, <1>5, <1>6, <2>1, <2>2, <2>3, ReaderStays DEF fd
<1> QED
  BY <1>4, <1>7, <1>8, <1>9, <1>10

LEMMA UdpReadStays == ASSUME IInv, Orderly, UdpRead PROVE Orderly'
<1> DEFINE fd == Top.fd
           p  == get_read_buffer(pool, fd)
           b  == p.used[fd]
<1>1. /\ stack # <<>> /\ fate = "run" /\ fd \in Fds /\ Top.pc = "udp-read"
      /\ IsRegistered(reg, fd) /\ reg.info[fd].cat = "udp-read"
  BY NamesAre, RunningIs DEF UdpRead
<1>2. is_rdy' = is_rdy /\ sent' = sent /\ reg' = reg
  BY DEF UdpRead, ReadVars
<1>3. Sound(p)
  BY <1>1, IInvIs, GetRead
<1>4. \/ /\ kern' = kern /\ pool' = p /\ Answer(1) /\ b = NoBuffer
      \/ /\ kern' = kern /\ pool' = p /\ Answer(1) /\ p.pkt[b] = Blank
      \/ kern' = kern /\ pool' = mv_buffer_rtof(p, fd) /\ Answer(0)
      \/ /\ kern.rx[UdpSock] > 0 /\ kern' = Consume(UdpSock)
         /\ pool' = p /\ Answer(1) /\ p.pkt[b] = Blank
      \/ /\ kern.rx[UdpSock] > 0 /\ kern' = Consume(UdpSock)
         /\ pool' = mv_buffer_rtof(p, fd) /\ Answer(0)
      \/ /\ b # NoBuffer /\ kern.rx[UdpSock] > 0 /\ kern' = Consume(UdpSock)
         /\ on_datagram(FillBuffer(p, fd, stamp + 1), fd)
  BY DEF UdpRead
<1>5. Reads(reg, fd) /\ Top.pc \in Readers /\ UW # fd /\ UW \in Fds
      /\ \A g \in Fds : Remains(g)
  BY <1>1, <1>2, IInvIs, WiredIs, NumbersAre, SameRemains DEF Reads, Readers
<1>6. (\A g \in Fds \ {fd} : NoMore(pool, p, g)) /\ p.writeWaiting[fd] = pool.writeWaiting[fd]
  BY <1>1, IInvIs, GetReadLeaves
<1> HIDE DEF fd, p, b
<1>7. kern.rx[UdpSock] > 0 /\ kern' = Consume(UdpSock) => kern'.sock = kern.sock
  BY IInvIs, FilesAre, Consuming
<1>8. ASSUME kern'.sock = kern.sock, Answer(0) \/ Answer(1),
             \/ pool' = p /\ (b = NoBuffer \/ p.pkt[b] = Blank)
             \/ pool' = mv_buffer_rtof(p, fd)
      PROVE  Orderly'
  <2>1. Called
    BY <1>1, <1>2, <1>8, StillCalled
  <2>2. Moves /\ accepting' = accepting
    BY <1>8, <2>1, AnswerMoves
  <2>3. ~ Full(pool', fd) /\ \A g \in Fds : NoMore(p, pool', g)
    <3>1. CASE pool' = p /\ (b = NoBuffer \/ p.pkt[b] = Blank)
      BY <3>1, NoMoreSame DEF Full, b
    <3>2. CASE pool' = mv_buffer_rtof(p, fd)
      BY <1>1, <1>3, <3>2, ReadToFreeLeaves DEF Full
    <3> QED
      BY <1>8, <3>1, <3>2
  <2>4. Given(p, UW)
    BY <2>3 DEF Given
  <2> QED
    BY <1>1, <1>2, <1>5, <1>6, <2>1, <2>2, <2>3, <2>4, ReaderStays DEF fd
<1>9. CASE /\ b # NoBuffer /\ kern.rx[UdpSock] > 0 /\ kern' = Consume(UdpSock)
           /\ on_datagram(FillBuffer(p, fd, stamp + 1), fd)
  <2> DEFINE q == FillBuffer(p, fd, stamp + 1)
  <2>1. Called
    BY <1>1, <1>2, <1>7, <1>9, StillCalled
  <2>2. stamp + 1 \in Packets
    <3>1. /\ kern.rx[UdpSock] \in Nat /\ stamp \in Nat /\ left \in Nat /\ MaxPackets \in Nat
          /\ stamp + left + kern.rx[UdpSock] <= MaxPackets
      BY IInvIs
    <3> QED
      BY <1>9, <3>1, ProxyAssumption
  <2>3. Sound(q) /\ q.used = p.used
    BY <1>1, <1>3, <1>9, <2>2, Filled DEF b
  <2>4. (\A g \in Fds \ {fd} : NoMore(p, q, g)) /\ q.writeWaiting = p.writeWaiting
    BY <1>1, <1>3, <1>9, FilledLeaves DEF b
  <2> HIDE DEF q
  <2>5. on_datagram(q, fd) /\ q.used[fd] # NoBuffer
    BY <1>9, <2>3 DEF q, b
  <2>6. Passed(q, fd)
    <3>1. uniq_pkt_sent_id \in Nat /\ algo \in Algos
      BY IInvIs
    <3> QED
      BY <1>1, <1>2, <2>1, <2>3, <2>5, <3>1, DatagramPasses
  <2>7. (\A g \in Fds \ {fd} : NoMore(pool, q, g))
        /\ q.writeWaiting[fd] = pool.writeWaiting[fd]
    BY <1>6, <2>4, NoMoreThen
  <2>8. /\ Moves /\ accepting' = accepting
        /\ fate' = "run" =>
             /\ Full(pool', fd) /\ Reads(reg', fd) => Sends(stack', pool'.used[fd], fd)
             /\ \E to \in Fds : Given(q, to)
    BY <2>6 DEF Passed, Full
  <2> QED
    BY <1>1, <1>2, <1>5, <2>1, <2>7, <2>8, ReaderStays DEF fd
<1> QED
  BY <1>4, <1>7, <1>8, <1>9

(* A writer leaves nothing to itself while the tunnel bootstraps.          *)
LEMMA WriterStays ==
  ASSUME IInv, Orderly, Called, Moves, Boot' => Boot,
         Boot' => \A g \in ConnFds : sent'[g] = 0,
         \A g \in Fds : Remains(g),
         NEW fd \in Fds, Top.fd = fd, IsRegistered(reg, fd), reg.info[fd].cat \in Writers,
         \A g \in Fds \ {fd} : NoMore(pool, pool', g),
         Boot' /\ fd \in ConnFds => pool'.used[fd] = NoBuffer /\ pool'.writeWaiting[fd] = <<>>
  PROVE  Orderly'
<1>1. fate = "run" /\ First(stack') /\ Sided(reg')
  BY MovesFirst, SidedStays DEF Called
<1>2. ASSUME fate' = "run", NEW g \in Fds PROVE Spared(g) \/ Tidy(g)
  <2>1. CASE g # fd
    BY <1>2, <2>1, MovesSpare
  <2>2. CASE g = fd
    <3>1. ~ Reads(reg', fd)
      BY DEF Reads, Remains, Readers, Writers
    <3> QED
      BY <2>2, <3>1 DEF Tidy, Drops
  <2> QED
    BY <2>1, <2>2
<1> QED
  BY <1>1, <1>2, StaysOrderly

LEMMA OneLeft ==
  ASSUME NEW S, NEW s \in Seq(S), Len(s) = 1
  PROVE  Tail(s) = <<>>
<1>1. s # <<>> /\ Tail(s) \in Seq(S) /\ Len(Tail(s)) = 0
  OBVIOUS
<1> QED
  BY <1>1, NoneIs

LEMMA TcpWriteStays == ASSUME IInv, Orderly, TcpWrite PROVE Orderly'
<1> DEFINE fd == Top.fd
           s  == SockOf(fd)
           p  == get_write_buffer(pool, fd)
           b  == p.used[fd]
           q  == mv_buffer_wtof(p, fd)
<1>1. /\ stack # <<>> /\ fate = "run" /\ fd \in Fds /\ s \in Files
      /\ IsRegistered(reg, fd) /\ reg.info[fd].cat = "tcp-write"
  BY NamesAre, RunningIs DEF TcpWrite, SockOf
<1>2. is_rdy' = (is_rdy \/ Len(reg.list["tcp-write"]) >= NPorts)
  BY DEF TcpWrite
<1>3. Boot' => Boot
  BY <1>2 DEF Boot
<1>4. Bootstrapping <=> Boot'
  BY DEF Bootstrapping, Boot
<1>5. \/ /\ b = NoBuffer /\ UNCHANGED <<reg, kern, sent>> /\ pool' = p /\ Answer(1)
      \/ /\ Boot' /\ UNCHANGED <<reg, kern, sent>> /\ notify_read(q)
      \/ /\ ~ Boot' /\ UNCHANGED <<reg, kern>> /\ notify_read(q)
      \/ /\ ~ Boot' /\ UNCHANGED reg /\ kern' = FillUp(s) /\ pool' = p /\ Answer(1)
      \/ /\ ~ Boot' /\ rm_fd(q, fd) /\ Answer(1)
  BY <1>4 DEF TcpWrite
<1>6. Boot' => sent' = sent
  BY <1>4 DEF TcpWrite
<1>7. Boot' => \A g \in ConnFds : sent'[g] = 0
  BY <1>3, <1>6 DEF Orderly
<1>8. Sound(pool) /\ Sound(p) /\ Sound(q)
  BY <1>1, IInvIs, GetWrite, WriteToFree
<1>9. /\ \A g \in Fds \ {fd} : NoMore(pool, p, g)
      /\ \/ p = pool
         \/ /\ pool.used[fd] = NoBuffer /\ p.used[fd] # NoBuffer
            /\ pool.writeWaiting[fd] # <<>>
            /\ p.writeWaiting[fd] = Tail(pool.writeWaiting[fd])
      /\ p.used[fd] = NoBuffer => pool.writeWaiting[fd] = <<>>
  BY <1>1, <1>8, GetWriteLeaves
<1>10. /\ \A g \in Fds : NoMore(p, q, g)
       /\ q.used[fd] = NoBuffer /\ q.writeWaiting = p.writeWaiting
  BY <1>1, <1>8, ReadToFreeLeaves DEF mv_buffer_wtof
<1>11. \A g \in Fds \ {fd} : NoMore(pool, q, g)
  BY <1>9, <1>10, NoMoreThen
<1>12. ASSUME Boot', fd \in ConnFds
       PROVE  \/ pool.used[fd] = NoBuffer /\ pool.writeWaiting[fd] = <<>>
              \/ pool.writeWaiting[fd] = <<>>
              \/ pool.used[fd] = NoBuffer /\ Tail(pool.writeWaiting[fd]) = <<>>
  <2>1. Drops(pool, reg, stack, fd)
    BY <1>1, <1>3, <1>12 DEF Orderly
  <2>2. pool.writeWaiting[fd] \in Seq(Buffers)
    BY <1>1, <1>8, SoundIs
  <2> QED
    BY <1>1, <2>1, <2>2, OneLeft DEF Drops, Writes
<1>13. reg.info[fd].cat \in Writers /\ reg.info[fd].cat # "udp-write"
  BY <1>1 DEF Writers
<1>14. ASSUME UNCHANGED <<reg>> PROVE \A g \in Fds : Remains(g)
  BY <1>14, SameRemains
<1> HIDE DEF fd, s, p, b, q
<1>15. CASE b = NoBuffer /\ UNCHANGED <<reg, kern, sent>> /\ pool' = p /\ Answer(1)
  <2>1. Called
    BY <1>1, <1>15, StillCalled
  <2>2. Moves
    BY <1>15, <2>1, AnswerMoves
  <2>3. pool'.used[fd] = NoBuffer /\ pool'.writeWaiting[fd] = <<>>
    BY <1>9, <1>15 DEF b
  <2> QED
    BY <1>1, <1>3, <1>7, <1>9, <1>13, <1>14, <1>15, <2>1, <2>2, <2>3, WriterStays DEF fd
<1>16. CASE UNCHANGED <<reg, kern>> /\ notify_read(q)
  <2>1. Called
    BY <1>1, <1>16, StillCalled
  <2>2. /\ Moves /\ \A g \in Fds : NoMore(q, pool', g)
        /\ pool'.used = q.used /\ pool'.writeWaiting = q.writeWaiting
    BY <1>8, <1>16, <2>1, NotifyMoves
  <2>3. \A g \in Fds \ {fd} : NoMore(pool, pool', g)
    BY <1>11, <2>2, NoMoreThen
  <2>4. ASSUME Boot', fd \in ConnFds
        PROVE  pool'.used[fd] = NoBuffer /\ pool'.writeWaiting[fd] = <<>>
    <3>1. p.writeWaiting[fd] = <<>> \/ p.used[fd] = NoBuffer
      BY <1>9, <1>12, <2>4
    <3>2. p.writeWaiting[fd] = <<>>
      BY <1>9, <1>12, <2>4, <3>1
    <3> QED
      BY <1>10, <2>2, <3>2
  <2> QED
    BY <1>1, <1>3, <1>7, <1>13, <1>14, <1>16, <2>1, <2>2, <2>3, <2>4, WriterStays DEF fd
<1>17. CASE ~ Boot' /\ UNCHANGED reg /\ kern' = FillUp(s) /\ pool' = p /\ Answer(1)
  <2>1. kern'.sock = kern.sock
    BY <1>1, <1>17, IInvIs, Filling
  <2>2. Called
    BY <1>1, <1>17, <2>1, StillCalled
  <2>3. Moves
    BY <1>17, <2>2, AnswerMoves
  <2> QED
    BY <1>1, <1>3, <1>7, <1>9, <1>13, <1>14, <1>17, <2>2, <2>3, WriterStays DEF fd
<1>18. CASE ~ Boot' /\ rm_fd(q, fd) /\ Answer(1)
  <2>1. Called
    BY <1>1, <1>8, <1>13, <1>18, Removing
  <2>2. Moves
    BY <1>18, <2>1, AnswerMoves
  <2>3. \A g \in Fds : Remains(g)
    BY <1>1, <1>13, <1>18, RemovedRemains
  <2>4. \A g \in Fds : NoMore(q, pool', g)
    BY <1>8, <1>18, WaiterLeaves DEF rm_fd
  <2>5. \A g \in Fds \ {fd} : NoMore(pool, pool', g)
    BY <1>11, <2>4, NoMoreThen
  <2> QED
    BY <1>1, <1>3, <1>7, <1>13, <1>18, <2>1, <2>2, <2>3, <2>5, WriterStays DEF fd
<1> QED
  BY <1>5, <1>15, <1>16, <1>17, <1>18

LEMMA UdpWriteStays == ASSUME IInv, Orderly, UdpWrite PROVE Orderly'
<1> DEFINE fd == Top.fd
           p  == get_write_buffer(pool, fd)
           b  == p.used[fd]
           q  == mv_buffer_wtof(p, fd)
<1>1. /\ stack # <<>> /\ fate = "run" /\ fd \in Fds
      /\ IsRegistered(reg, fd) /\ reg.info[fd].cat = "udp-write"
  BY NamesAre, RunningIs DEF UdpWrite
<1>2. reg' = reg /\ is_rdy' = is_rdy /\ (Boot' => Boot)
  BY DEF UdpWrite, Boot
<1>3. fd \notin ConnFds
  BY <1>1 DEF Orderly, Sided
<1>4. \/ kern' = kern /\ pool' = p /\ Answer(1)
      \/ kern' = kern /\ notify_read(q)
      \/ kern' = FillUp(UdpSock) /\ pool' = p /\ Answer(1)
      \/ kern' = kern /\ pool' = q /\ Answer(0)
  BY DEF UdpWrite
<1>5. sent' = sent \/ \E x : sent' = [sent EXCEPT ![fd] = x]
  BY DEF UdpWrite
<1>6. Boot' => \A g \in ConnFds : sent'[g] = 0
  <2>1. sent \in [Fds -> Packets]
    BY IInvIs
  <2>2. \A g \in ConnFds : sent'[g] = sent[g]
    BY <1>3, <1>5, <2>1, ConnFdsAre
  <2> QED
    BY <1>2, <2>2 DEF Orderly
<1>7. Sound(p) /\ Sound(q)
  BY <1>1, IInvIs, GetWrite, WriteToFree
<1>8. (\A g \in Fds \ {fd} : NoMore(pool, p, g)) /\ \A g \in Fds : NoMore(p, q, g)
  BY <1>1, <1>7, IInvIs, GetWriteLeaves, ReadToFreeLeaves DEF mv_buffer_wtof
<1>9. \A g \in Fds \ {fd} : NoMore(pool, q, g)
  BY <1>8, NoMoreThen
<1>10. kern' = kern \/ kern' = FillUp(UdpSock) => kern'.sock = kern.sock
  BY IInvIs, FilesAre, Filling
<1> HIDE DEF fd, p, b, q
<1>11. Called
  BY <1>1, <1>2, <1>4, <1>10, StillCalled
<1>12. Moves /\ \A g \in Fds \ {fd} : NoMore(pool, pool', g)
  <2>1. CASE pool' = p /\ Answer(1)
    BY <1>8, <1>11, <2>1, AnswerMoves
  <2>2. CASE pool' = q /\ Answer(0)
    BY <1>9, <1>11, <2>2, AnswerMoves
  <2>3. CASE notify_read(q)
    <3>1. Moves /\ \A g \in Fds : NoMore(q, pool', g)
      BY <1>2, <1>7, <1>11, <2>3, NotifyMoves
    <3> QED
      BY <1>9, <3>1, NoMoreThen
  <2> QED
    BY <1>4, <2>1, <2>2, <2>3
<1>13. reg.info[fd].cat \in Writers /\ \A g \in Fds : Remains(g)
  BY <1>1, <1>2, SameRemains DEF Writers
<1> QED
  BY <1>1, <1>2, <1>3, <1>6, <1>11, <1>12, <1>13, WriterStays DEF fd

(* A call of dup2 or of lightning that sends to a link.                    *)
LEMMA LinkStays ==
  ASSUME IInv, Orderly, Called, reg' = reg, is_rdy' = is_rdy, sent' = sent,
         Top.pc \in Loops, pool.free # <<>>, NEW to \in Fds, Writes(reg, to),
         pool' = dup_buffer_tow(pool, Top.bp, to),
         NEW f \in Frame, f.pc = Top.pc, f.fd = Top.fd, f.bp = Top.bp,
         stack' = <<Callback(reg, to, FALSE)>> \o (<<f>> \o Tail(stack))
  PROVE  Orderly'
<1> DEFINE g == Callback(reg, to, FALSE)
           t == <<f>> \o Tail(stack)
<1>1. fate = "run" /\ (Boot' => Boot) /\ stack # <<>> /\ stack \in Seq(Frame)
      /\ Tail(stack) \in Seq(Frame)
  BY CalledIs DEF Called, Boot, Waiting
<1>2. g \in Frame /\ g.pc = "tcp-write" /\ g.fd = to
  <2>1. Wired(reg', kern')
    BY DEF Called
  <2> QED
    BY <2>1, CallbackRuns DEF Writes, Callback
<1>3. stack' = <<g>> \o t
  OBVIOUS
<1> HIDE DEF g
<1>4. t \in Seq(Frame)
  BY <1>1, PushedIs
<1>5. \A fd, b : Sends(stack, b, fd) => Sends(t, b, fd)
  BY <1>1, SendsBelow, SendsPushed DEF Top
<1> HIDE DEF t
<1>6. stack' # <<>> /\ Head(stack') = g /\ \A fd, b : Sends(stack, b, fd) => Sends(stack', b, fd)
  <2> DEFINE u == <<g>> \o t
  <2>1. u # <<>> /\ Head(u) = g
    BY <1>2, <1>4, PushedIs
  <2>2. \A fd, b : Sends(t, b, fd) => Sends(u, b, fd)
    BY <1>2, <1>4, SendsPushed
  <2> HIDE DEF u
  <2>3. stack' = u
    BY <1>3 DEF u
  <2> QED
    BY <1>5, <2>1, <2>2, <2>3
<1>7. /\ \A fd \in Fds \ {to} : NoMore(pool, pool', fd)
      /\ pool'.used = pool.used
      /\ pool.writeWaiting[to] = <<>> => Len(pool'.writeWaiting[to]) = 1
  BY IInvIs, DupToWriteLeaves
<1>8. Given(pool, to)
  BY <1>2, <1>6, <1>7 DEF Given, Writing
<1>9. \A fd \in Fds : Remains(fd)
  BY SameRemains
<1>10. First(stack') /\ Sided(reg') /\ (Boot' => \A fd \in ConnFds : sent'[fd] = 0)
  BY <1>1, <1>2, <1>6 DEF First, Orderly
<1>11. Top.pc # "tcp-read" /\ Top.pc # "tcp-write"
  BY DEF Loops
<1>12. \A fd : ~ Greets(stack, accepting, fd) /\ ~ Writing(stack, fd)
  BY <1>11 DEF Greets, Writing, Top
<1>13. Tidy(to)
  BY <1>1, <1>8, <1>9, <1>11, NoMoreSame, GivenIsTidy
<1>14. \A fd \in Fds \ {to} : Spared(fd)
  BY <1>6, <1>7, <1>9, <1>12 DEF Spared
<1> QED
  BY <1>1, <1>10, <1>13, <1>14, StaysOrderly

LEMMA CrashStays ==
  ASSUME Orderly, fate = "run", fate' # "run", stack' = stack, reg' = reg, is_rdy' = is_rdy,
         sent' = sent
  PROVE  Orderly'
<1>1. (Boot' => Boot) /\ First(stack') /\ Sided(reg')
      /\ (Boot' => \A fd \in ConnFds : sent'[fd] = 0)
  BY DEF Orderly, Boot
<1> QED
  BY <1>1, StaysOrderly

LEMMA Dup2LinkStays == ASSUME IInv, Orderly, Dup2Link PROVE Orderly'
<1> DEFINE to == reg.list["tcp-write"][Top.i]
           f  == [Top EXCEPT !.i = Top.i + 1]
<1>1. /\ stack # <<>> /\ fate = "run" /\ Top.pc = "dup2" /\ Top \in Frame
      /\ Waits(Top) /\ Top.bp \in Buffers
  BY LoopRunningIs DEF Dup2Link, Loops
<1>2. is_rdy' = is_rdy /\ reg' = reg /\ kern' = kern /\ sent' = sent
  BY DEF Dup2Link
<1>3. Wired(reg, kern)
  BY IInvIs
<1>4. Called
  BY <1>1, <1>2, StillCalled
<1>5. CASE pool.free = <<>>
  <2>1. fate' = "crash" /\ stack' = stack
    BY <1>5 DEF Dup2Link
  <2> QED
    BY <1>1, <1>2, <2>1, CrashStays
<1>6. CASE pool.free # <<>>
  <2>1. /\ pool' = dup_buffer_tow(pool, Top.bp, to)
        /\ stack' = <<Callback(reg, to, FALSE), f>> \o Tail(stack)
        /\ Top.i <= Len(reg.list["tcp-write"])
    BY <1>6 DEF Dup2Link
  <2>2. Top.i \in Nat /\ Top.i > 0
    BY <1>1 DEF Waits, Frame
  <2>3. Top.i \in 1 .. Len(reg.list["tcp-write"])
    <3>1. reg.list["tcp-write"] \in Seq(Fds)
      BY <1>3, NamesAre, WiredIs
    <3> QED
      BY <2>1, <2>2, <3>1
  <2>4. to \in Fds /\ IsRegistered(reg, to) /\ reg.info[to].cat = "tcp-write"
    BY <1>3, <2>3, NamesAre, Leads
  <2>5. f \in Frame /\ f.pc = Top.pc /\ f.bp = Top.bp /\ f.fd = Top.fd
    BY <1>1, <2>2 DEF Frame
  <2>6. stack' = <<Callback(reg, to, FALSE)>> \o (<<f>> \o Tail(stack))
    <3> DEFINE g == Callback(reg, to, FALSE)
    <3>1. g \in Frame
      BY <1>3, <2>4, CallbackRuns
    <3>2. Tail(stack) \in Seq(Frame)
      BY <1>4, CalledIs DEF Waiting
    <3> HIDE DEF g, f, to
    <3>3. <<g, f>> \o Tail(stack) = <<g>> \o (<<f>> \o Tail(stack))
      BY <2>5, <3>1, <3>2, TwoPushed
    <3> QED
      BY <2>1, <3>3 DEF g
  <2>7. Writes(reg, to) /\ Top.pc \in Loops
    BY <1>1, <2>4 DEF Writes, Loops
  <2> HIDE DEF f, to
  <2> QED
    BY <1>2, <1>4, <1>6, <2>1, <2>4, <2>5, <2>6, <2>7, LinkStays
<1> QED
  BY <1>5, <1>6

LEMMA LightningSendStays == ASSUME IInv, Orderly, LightningSend PROVE Orderly'
<1> DEFINE to == FromUrl(reg, <<"tcp-write", Head(Top.links)>>)
           f  == [Top EXCEPT !.links = Tail(Top.links)]
<1>1. /\ stack # <<>> /\ fate = "run" /\ Top.pc = "lightning" /\ Top \in Frame
      /\ Waits(Top) /\ Top.bp \in Buffers
  BY LoopRunningIs DEF LightningSend, Loops
<1>2. /\ is_rdy' = is_rdy /\ reg' = reg /\ kern' = kern /\ sent' = sent
      /\ accepting' = accepting
  BY DEF LightningSend
<1>3. Wired(reg, kern)
  BY IInvIs
<1>4. Called
  BY <1>1, <1>2, StillCalled
<1>5. Top.links \in Seq(Ports) /\ Top.links # <<>>
  BY <1>1 DEF Frame, LightningSend
<1>6. Head(Top.links) \in Ports /\ Tail(Top.links) \in Seq(Ports)
  BY <1>5
<1>7. f \in Frame /\ f.pc = Top.pc /\ f.bp = Top.bp /\ f.fd = Top.fd
  BY <1>1, <1>6 DEF Frame
<1>8. \/ to = NoFd /\ stack' = <<f>> \o Tail(stack) /\ UNCHANGED <<pool, fate>>
      \/ to # NoFd /\ pool.free = <<>> /\ fate' = "crash" /\ UNCHANGED <<pool, stack>>
      \/ /\ to # NoFd /\ pool.free # <<>> /\ pool' = dup_buffer_tow(pool, Top.bp, to)
         /\ stack' = <<Callback(reg, to, FALSE)>> \o (<<f>> \o Tail(stack))
  BY DEF LightningSend
<1>9. to # NoFd => to \in Fds /\ Writes(reg, to)
  <2>1. <<"tcp-write", Head(Top.links)>> \in Urls
    BY <1>6, NamesAre, NumbersAre
  <2> QED
    BY <1>3, <2>1, Leads DEF Writes
<1>10. Top.pc \in Loops /\ Top.pc # "tcp-read" /\ Top.pc # "tcp-write"
       /\ Top.pc # "tcp-listen"
  BY <1>1 DEF Loops
<1> HIDE DEF to, f
<1>11. CASE to = NoFd /\ stack' = <<f>> \o Tail(stack) /\ UNCHANGED <<pool, fate>>
  <2>1. Tail(stack) \in Seq(Frame) /\ stack \in Seq(Frame)
    BY <1>4, CalledIs DEF Waiting
  <2>2. \A fd, b : Sends(stack, b, fd) => Sends(stack', b, fd)
    BY <1>1, <1>7, <1>11, <2>1, SendsBelow, SendsPushed DEF Top
  <2>3. Head(stack') = f
    BY <1>7, <1>11, <2>1, PushedIs
  <2>4. First(stack') /\ Sided(reg') /\ (Boot' => Boot)
        /\ (Boot' => \A fd \in ConnFds : sent'[fd] = 0)
    BY <1>2, <1>7, <1>10, <2>3 DEF First, Orderly, Boot
  <2>5. \A fd : ~ Greets(stack, accepting, fd) /\ ~ Writing(stack, fd)
    BY <1>10 DEF Greets, Writing, Top
  <2>6. \A fd \in Fds : Spared(fd)
    BY <1>2, <1>11, <2>2, <2>5, NoMoreSame, SameRemains DEF Spared
  <2> QED
    BY <1>1, <2>4, <2>6, StaysOrderly
<1>12. CASE to # NoFd /\ pool.free = <<>> /\ fate' = "crash" /\ UNCHANGED <<pool, stack>>
  BY <1>1, <1>2, <1>12, CrashStays
<1>13. CASE /\ to # NoFd /\ pool.free # <<>> /\ pool' = dup_buffer_tow(pool, Top.bp, to)
            /\ stack' = <<Callback(reg, to, FALSE)>> \o (<<f>> \o Tail(stack))
  BY <1>2, <1>4, <1>7, <1>9, <1>10, <1>13, LinkStays
<1> QED
  BY <1>8, <1>11, <1>12, <1>13

(* dup2 or lightning is done, and releases the datagram.                   *)
LEMMA DoneStays ==
  ASSUME IInv, Orderly, stack # <<>>, fate = "run", Top.fd \in Fds, Top.pc \in Loops,
         reg' = reg, kern' = kern, is_rdy' = is_rdy, sent' = sent,
         pool' = mv_buffer_rtof(pool, Top.fd), Answer(0)
  PROVE  Orderly'
<1>1. Called
  BY StillCalled
<1>2. Moves /\ (Boot' => Boot)
  BY <1>1, AnswerMoves DEF Boot
<1>3. \A g \in Fds : Remains(g)
  BY SameRemains
<1>4. First(stack') /\ Sided(reg') /\ (Boot' => \A g \in ConnFds : sent'[g] = 0)
  BY <1>1, <1>2, <1>3, MovesFirst, SidedStays DEF Orderly
<1>5. (\A g \in Fds : NoMore(pool, pool', g)) /\ pool'.used[Top.fd] = NoBuffer
      /\ pool'.writeWaiting = pool.writeWaiting
  BY IInvIs, ReadToFreeLeaves
<1>6. ASSUME fate' = "run", NEW g \in Fds PROVE Spared(g) \/ Tidy(g)
  <2>1. CASE g # Top.fd
    BY <1>1, <1>2, <1>3, <1>5, <1>6, <2>1, MovesSpare
  <2>2. CASE g = Top.fd
    <3>1. ~ Full(pool', g)
      BY <1>5, <2>2 DEF Full
    <3>2. ASSUME Boot', g \in ConnFds PROVE Drops(pool', reg', stack', g)
      <4>1. Drops(pool, reg, stack, g)
        BY <1>2, <3>2 DEF Orderly
      <4>2. ~ Writing(stack, g)
        BY DEF Writing, Top, Loops
      <4>3. pool'.writeWaiting[g] = <<>>
        BY <1>5, <4>1, <4>2 DEF Drops
      <4> QED
        BY <1>5, <2>2, <4>3 DEF Drops
    <3> QED
      BY <3>1, <3>2 DEF Tidy
  <2> QED
    BY <2>1, <2>2
<1> QED
  BY <1>2, <1>4, <1>6, StaysOrderly

LEMMA Dup2DoneStays == ASSUME IInv, Orderly, Dup2Done PROVE Orderly'
<1>1. stack # <<>> /\ fate = "run" /\ Top.fd \in Fds /\ Top.pc \in Loops
  BY LoopRunningIs DEF Dup2Done, Loops
<1>2. /\ reg' = reg /\ kern' = kern /\ is_rdy' = is_rdy /\ sent' = sent
      /\ pool' = mv_buffer_rtof(pool, Top.fd) /\ Answer(0)
  BY DEF Dup2Done
<1> QED
  BY <1>1, <1>2, DoneStays

LEMMA LightningDoneStays == ASSUME IInv, Orderly, LightningDone PROVE Orderly'
<1>1. stack # <<>> /\ fate = "run" /\ Top.fd \in Fds /\ Top.pc \in Loops
  BY LoopRunningIs DEF LightningDone, Loops
<1>2. /\ reg' = reg /\ kern' = kern /\ is_rdy' = is_rdy /\ sent' = sent
      /\ pool' = mv_buffer_rtof(pool, Top.fd) /\ Answer(0)
  BY DEF LightningDone
<1> QED
  BY <1>1, <1>2, DoneStays

LEMMA TcpCoNoneStays == ASSUME IInv, Orderly, TcpCoNone PROVE Orderly'
<1>1. stack # <<>> /\ fate = "run" /\ Top.pc = "tcp-listen"
  BY NamesAre, RunningIs DEF TcpCoNone
<1>2. /\ reg' = reg /\ kern' = kern /\ is_rdy' = is_rdy /\ sent' = sent /\ pool' = pool
      /\ Answer(1)
  BY DEF TcpCoNone
<1>3. Called
  BY <1>1, <1>2, StillCalled
<1>4. Moves /\ (Boot' => Boot)
  BY <1>2, <1>3, AnswerMoves DEF Boot
<1>5. \A g \in Fds : Remains(g) /\ NoMore(pool, pool', g)
  BY <1>2, SameRemains, NoMoreSame
<1>6. First(stack') /\ Sided(reg') /\ (Boot' => \A g \in ConnFds : sent'[g] = 0)
  BY <1>2, <1>3, <1>4, <1>5, MovesFirst, SidedStays DEF Orderly
<1>7. Top.pc \notin Loops \cup {"tcp-read", "tcp-write"}
  BY <1>1 DEF Loops
<1>8. fate' = "run" => \A g \in Fds : Spared(g)
  BY <1>3, <1>4, <1>5, <1>7, MovesSpare
<1> QED
  BY <1>1, <1>4, <1>6, <1>8, StaysOrderly

(* A step of the loop itself, or one that makes the first call.            *)
LEMMA NoCallSpares ==
  ASSUME stack = <<>>, NEW fd, NoMore(pool, pool', fd), Remains(fd)
  PROVE  Spared(fd)
  BY NothingSent DEF Spared, Greets, Writing

LEMMA LoopStays ==
  ASSUME IInv, Orderly, stack = <<>>, fate = "run", is_rdy' = is_rdy, sent' = sent,
         stack' = <<>> \/ \E f : stack' = <<f>>,
         \A g \in Fds : Remains(g) /\ NoMore(pool, pool', g)
  PROVE  Orderly'
<1>1. First(stack')
  BY AloneIs DEF First
<1>2. Sided(reg') /\ (Boot' => Boot) /\ (Boot' => \A g \in ConnFds : sent'[g] = 0)
  BY SidedStays DEF Orderly, Boot
<1> QED
  BY <1>1, <1>2, NoCallSpares, StaysOrderly

LEMMA PollStays == ASSUME IInv, Orderly, Poll PROVE Orderly'
<1>1. stack = <<>> /\ fate = "run"
  BY AtLoopIs DEF Poll
<1>2. /\ is_rdy' = is_rdy /\ sent' = sent /\ pool' = pool /\ stack' = stack
      /\ reg' = ClearBlacklist(reg)
  BY DEF Poll
<1>3. reg'.info = reg.info
  BY <1>2, IInvIs, WiredIs DEF ClearBlacklist, Registry
<1> QED
  BY <1>1, <1>2, <1>3, SameRemains, NoMoreSame, LoopStays

LEMMA HandleEventStays == ASSUME IInv, Orderly, HandleEvent PROVE Orderly'
<1>1. stack = <<>> /\ fate = "run"
  BY AtLoopIs DEF HandleEvent
<1>2. is_rdy' = is_rdy /\ sent' = sent /\ pool' = pool /\ reg' = reg
  BY DEF HandleEvent
<1>3. stack' = stack \/ \E f : stack' = <<f>>
  BY DEF HandleEvent
<1> QED
  BY <1>1, <1>2, <1>3, SameRemains, NoMoreSame, LoopStays

LEMMA HandleErrorStays == ASSUME IInv, Orderly, HandleError PROVE Orderly'
<1>1. stack = <<>> /\ fate = "run" /\ Sound(pool)
  BY AtLoopIs, IInvIs DEF HandleError
<1>2. is_rdy' = is_rdy /\ sent' = sent /\ stack' = stack
  BY DEF HandleError
<1>3. PICK e \in batch.err :
        IF Ignored(reg, e.fd) THEN UNCHANGED <<pool, reg, kern>>
        ELSE LET p == ReleaseAll(pool, e.fd)
                 r == Repaired(e.fd)
             IN  IF reg.info[e.fd].cat \in {"udp-read", "udp-write"} \/ r = <<>>
                 THEN pool' = p /\ UNCHANGED <<reg, kern>>
                 ELSE IF Len(r) = 1 THEN rm_fd(p, r[1])
                 ELSE /\ reg' = RmFd(RmFd(reg, r[1]), r[2])
                      /\ kern' = Close(Close(kern, r[1]), r[2])
                      /\ pool' = ForgetFd(ForgetFd(p, r[1]), r[2])
  BY DEF HandleError
<1>4. e.fd \in Fds
  <2>1. batch \in [err : SUBSET Events, cb : SUBSET Events]
    BY IInvIs
  <2> QED
    BY <1>3, <2>1 DEF Events
<1> SUFFICES \A g \in Fds : Remains(g) /\ NoMore(pool, pool', g)
  BY <1>1, <1>2, LoopStays
<1>5. CASE Ignored(reg, e.fd)
  BY <1>3, <1>5, SameRemains, NoMoreSame
<1>6. CASE ~ Ignored(reg, e.fd)
  <2> DEFINE p == ReleaseAll(pool, e.fd)
             r == Repaired(e.fd)
  <2>1. IsRegistered(reg, e.fd)
    BY <1>6 DEF Ignored
  <2>2. Sound(p) /\ \A g \in Fds : NoMore(pool, p, g)
    BY <1>1, <1>4, Released, ReleasedLeaves
  <2>3. \/ pool' = p /\ reg' = reg
        \/ r # <<>> /\ Len(r) = 1 /\ rm_fd(p, r[1])
        \/ /\ r # <<>> /\ Len(r) # 1
           /\ reg' = RmFd(RmFd(reg, r[1]), r[2])
           /\ pool' = ForgetFd(ForgetFd(p, r[1]), r[2])
    BY <1>3, <1>6
  <2>4. LET Of(g, c) == g \in Fds /\ IsRegistered(reg, g) /\ reg.info[g].cat = c
        IN  \/ r = <<>>
            \/ Len(r) = 1 /\ (Of(r[1], "tcp-read") \/ Of(r[1], "tcp-write"))
            \/ Len(r) = 2 /\ Of(r[1], "tcp-read") /\ Of(r[2], "tcp-write")
    BY <1>4, <2>1, RepairedIs
  <2> HIDE DEF p, r
  <2>5. CASE pool' = p /\ reg' = reg
    BY <2>2, <2>5, SameRemains
  <2>6. CASE r # <<>> /\ Len(r) = 1 /\ rm_fd(p, r[1])
    <3>1. r[1] \in Fds /\ IsRegistered(reg, r[1]) /\ reg.info[r[1]].cat # "udp-write"
      BY <2>4, <2>6
    <3>2. \A g \in Fds : Remains(g)
      BY <2>6, <3>1, RemovedRemains
    <3>3. \A g \in Fds : NoMore(p, pool', g)
      BY <2>2, <2>6, WaiterLeaves DEF rm_fd
    <3> QED
      BY <2>2, <3>2, <3>3, NoMoreThen
  <2>7. CASE /\ r # <<>> /\ Len(r) # 1
             /\ reg' = RmFd(RmFd(reg, r[1]), r[2])
             /\ pool' = ForgetFd(ForgetFd(p, r[1]), r[2])
    <3> DEFINE g == r[1]
               h == r[2]
               m == RmFd(reg, g)
               q == ForgetFd(p, g)
    <3>1. /\ g \in Fds /\ IsRegistered(reg, g) /\ reg.info[g].cat = "tcp-read"
          /\ h \in Fds /\ IsRegistered(reg, h) /\ reg.info[h].cat = "tcp-write"
      BY <2>4, <2>7
    <3>2. reg' = RmFd(m, h) /\ pool' = ForgetFd(q, h)
      BY <2>7
    <3>3. kern \in Kernels /\ Wired(reg, kern)
      BY IInvIs
    <3> HIDE DEF g, h
    <3>4. Wired(m, Close(kern, g)) /\ SameBut(reg, m, g) /\ ~ IsRegistered(m, g)
      BY <3>1, <3>3, RmWired
    <3>5. Close(kern, g) \in Kernels
      BY <3>1, <3>3, Closing
    <3> HIDE DEF m
    <3>6. IsRegistered(m, h) /\ m.info[h].cat # "udp-write"
      BY <3>1, <3>4 DEF SameBut
    <3>7. ~ IsRegistered(reg', h) /\ SameBut(m, reg', h)
      BY <3>1, <3>2, <3>4, <3>5, <3>6, RmWired
    <3>8. \A x \in Fds : Remains(x)
      BY <3>1, <3>4, <3>7 DEF SameBut, Remains
    <3>9. Sound(q) /\ \A x \in Fds : NoMore(p, q, x)
      BY <2>2, <3>1, Forgotten, WaiterLeaves
    <3> HIDE DEF q
    <3>10. \A x \in Fds : NoMore(q, pool', x)
      BY <3>2, <3>9, WaiterLeaves
    <3> QED
      BY <2>2, <3>8, <3>9, <3>10, NoMoreThen
  <2> QED
    BY <2>3, <2>5, <2>6, <2>7
<1> QED
  BY <1>5, <1>6

LEMMA AddedIs ==
  ASSUME NEW r, NEW k, Wired(r, k), NEW fd \in Fds, ~ IsRegistered(r, fd),
         NEW c \in Cats, NEW p \in 0 .. NPorts, NEW t, t = AddFd(r, fd, c, <<c, p>>)
  PROVE  IsRegistered(t, fd) /\ t.info[fd].cat = c /\ SameBut(r, t, fd) /\ t.black = r.black
<1> DEFINE u == <<c, p>>
<1>1. u \in Urls /\ r \in Registry /\ r.info \in [Fds -> Info \cup {NoInfo}]
  BY NamesAre, WiredIs
<1> HIDE DEF u
<1>2. Added(r, t, fd, c, u)
  BY <1>1, AddFields DEF u
<1>3. t.info = [r.info EXCEPT ![fd] = [cat |-> c, url |-> u]] /\ t.black = r.black
  BY <1>2 DEF Added
<1>4. t.info[fd] = [cat |-> c, url |-> u] /\ \A g \in Fds \ {fd} : t.info[g] = r.info[g]
  BY <1>1, <1>3
<1>5. IsRegistered(t, fd) /\ t.info[fd].cat = c
  BY <1>4, NamesAre DEF IsRegistered, NoInfo
<1> QED
  BY <1>3, <1>4, <1>5 DEF SameBut, IsRegistered

(* Only the new descriptor is registered, on the side it is for.           *)
LEMMA SidedMore ==
  ASSUME Orderly, NEW fd \in Fds, reg'.info[fd].cat \in {"tcp-read", "tcp-write"},
         SameBut(reg, reg', fd)
  PROVE  Sided(reg')
  BY ConnFdsAre DEF Orderly, Sided, SameBut

LEMMA TcpCoStays == ASSUME IInv, Orderly, TcpCo PROVE Orderly'
<1> DEFINE p == Top.fd - 2
<1>1. /\ stack # <<>> /\ fate = "run" /\ Top.fd \in Fds /\ Top.pc = "tcp-listen"
      /\ IsRegistered(reg, Top.fd) /\ reg.info[Top.fd].cat = "tcp-listen"
  BY NamesAre, RunningIs DEF TcpCo
<1>2. is_rdy' = is_rdy /\ sent' = sent /\ (Boot' => Boot)
  BY DEF TcpCo, Boot
<1>3. kern \in Kernels /\ Wired(reg, kern) /\ Sound(pool) /\ stack \in Seq(Frame)
  BY IInvIs DEF Nested
<1>4. p \in 0 .. NPorts
  <2>1. Top.fd \in Listeners
    BY <1>1, <1>3, WiredIs
  <2> QED
    BY <2>1, NumbersAre
<1>5. PICK r \in Closed(kern), w \in Closed(kern), inherit \in BOOLEAN :
        /\ reg' = AddFd(reg, r, "tcp-read", <<"tcp-read", p>>)
        /\ pool' = AdoptFd(pool, r, inherit)
        /\ accepting' = w
        /\ stack' = <<Callback(reg', r, FALSE)>>
  BY DEF TcpCo
<1>6. r \in Fds /\ w \in Fds /\ kern.sock[r] = NoSock
  BY <1>5 DEF Closed
<1>7. ~ IsRegistered(reg, r) /\ w # NoFd
  BY <1>3, <1>6, WiredIs, NamesAre
<1> HIDE DEF p
<1>8. IsRegistered(reg', r) /\ reg'.info[r].cat = "tcp-read" /\ SameBut(reg, reg', r)
  BY <1>3, <1>4, <1>5, <1>6, <1>7, NamesAre, AddedIs
<1>9. \A g \in Fds : NoMore(pool, pool', g)
  BY <1>3, <1>5, <1>6, AdoptedLeaves
<1> DEFINE f == Callback(reg', r, FALSE)
<1>10. f.pc = "tcp-read" /\ f.fd = r /\ ~ f.zero
  BY <1>8 DEF Callback
<1>11. stack' = <<f>>
  BY <1>5
<1> HIDE DEF f
<1>12. First(stack') /\ Greets(stack', accepting', r)
  BY <1>5, <1>7, <1>10, <1>11, AloneIs DEF First, Greets
<1>13. Sided(reg') /\ (Boot' => \A g \in ConnFds : sent'[g] = 0)
  BY <1>2, <1>6, <1>8, SidedMore DEF Orderly
<1>14. \A g, b : ~ Sends(stack, b, g)
  <2>1. Tail(stack) = <<>> /\ Head(stack).pc \notin Loops
    BY <1>1 DEF Orderly, First, Top, Loops
  <2> QED
    BY <1>1, <1>3, <2>1, SendsBelow, NothingSent
<1>15. \A g : ~ Greets(stack, accepting, g) /\ ~ Writing(stack, g)
  BY <1>1 DEF Greets, Writing, Top
<1>16. \A g \in Fds \ {r} : Spared(g)
  BY <1>8, <1>9, <1>14, <1>15 DEF Spared, Remains, SameBut
<1>17. Tidy(r)
  <2>1. ASSUME Boot', r \in ConnFds PROVE Drops(pool', reg', stack', r)
    <3>1. pool.writeWaiting[r] = <<>>
      BY <1>1, <1>2, <1>15, <2>1 DEF Orderly, Drops
    <3>2. pool'.writeWaiting[r] = <<>> /\ ~ Writes(reg', r)
      BY <1>6, <1>8, <1>9, <3>1 DEF NoMore, Writes
    <3> QED
      BY <3>2 DEF Drops
  <2> QED
    BY <1>12, <2>1 DEF Tidy
<1> QED
  BY <1>1, <1>2, <1>12, <1>13, <1>16, <1>17, StaysOrderly

LEMMA TcpCoWriterStays == ASSUME IInv, Orderly, TcpCoWriter PROVE Orderly'
<1> DEFINE w == accepting
           p == current - 2
<1>1. fate = "run" /\ stack = <<>> /\ w # NoFd
  BY DEF TcpCoWriter
<1>2. is_rdy' = is_rdy /\ sent' = sent /\ (Boot' => Boot)
  BY DEF TcpCoWriter, Boot
<1>3. kern \in Kernels /\ Wired(reg, kern) /\ Sound(pool)
  BY IInvIs
<1>4. w \in Fds /\ ~ IsRegistered(reg, w) /\ current \in Listeners
  BY <1>1, IInvIs DEF Adding
<1>5. p \in 0 .. NPorts
  BY <1>4, NumbersAre
<1>6. PICK inherit \in BOOLEAN :
        /\ reg' = AddFd(reg, w, "tcp-write", <<"tcp-write", p>>)
        /\ pool' = AdoptFd(pool, w, inherit)
        /\ stack' = <<Callback(reg', w, TRUE)>>
  BY DEF TcpCoWriter
<1> HIDE DEF p, w
<1>7. IsRegistered(reg', w) /\ reg'.info[w].cat = "tcp-write" /\ SameBut(reg, reg', w)
  BY <1>3, <1>4, <1>5, <1>6, NamesAre, AddedIs
<1>8. \A g \in Fds : NoMore(pool, pool', g)
  BY <1>3, <1>4, <1>6, AdoptedLeaves
<1> DEFINE f == Callback(reg', w, TRUE)
<1>9. f.pc = "tcp-write" /\ f.fd = w
  BY <1>7 DEF Callback
<1>10. stack' = <<f>>
  BY <1>6
<1> HIDE DEF f
<1>11. First(stack') /\ Writing(stack', w)
  BY <1>9, <1>10, AloneIs DEF First, Writing
<1>12. Sided(reg') /\ (Boot' => \A g \in ConnFds : sent'[g] = 0)
  BY <1>2, <1>4, <1>7, SidedMore DEF Orderly
<1>13. \A g \in Fds \ {w} : Spared(g)
  BY <1>1, <1>7, <1>8, NoCallSpares DEF Remains, SameBut
<1>14. Tidy(w)
  <2>1. ~ Reads(reg', w)
    BY <1>7 DEF Reads, Readers
  <2>2. ASSUME Boot', w \in ConnFds PROVE Drops(pool', reg', stack', w)
    <3>1. pool.writeWaiting[w] = <<>>
      BY <1>1, <1>2, <2>2 DEF Orderly, Drops, Writing
    <3>2. pool'.writeWaiting[w] = <<>>
      BY <1>4, <1>8, <3>1 DEF NoMore
    <3> QED
      BY <1>11, <3>2 DEF Drops
  <2> QED
    BY <2>1, <2>2 DEF Tidy
<1> QED
  BY <1>1, <1>2, <1>11, <1>12, <1>13, <1>14, StaysOrderly

LEMMA UnchangedStays ==
  ASSUME Orderly,
         UNCHANGED <<pool, reg, stack, accepting, is_rdy, sent, fate>>
  PROVE  Orderly'
  BY DEF Orderly, Boot

LEMMA InitOrderly == ASSUME Init PROVE Orderly
<1>1. /\ pool = get_read_buffer(InitPool, UR) /\ stack = <<>> /\ kern = InitKern
      /\ sent = [fd \in Fds |-> 0]
  BY DEF Init
<1>2. IInv
  BY InitKeeps
<1>3. \A fd \in Fds : InitPool.used[fd] = NoBuffer /\ InitPool.writeWaiting[fd] = <<>>
  BY DEF InitPool
<1>4. pool.pkt = [b \in Buffers |-> Blank]
  <2>1. InitPool.pkt = [b \in Buffers |-> Blank] /\ InitPool \in Pool
    BY InitSound, SoundIs DEF InitPool
  <2>2. pool.pkt = InitPool.pkt
    BY <1>1, <2>1 DEF get_read_buffer, Pool
  <2> QED
    BY <2>1, <2>2
<1>5. \A fd \in Fds : ~ Full(pool, fd)
  <2>1. pool.used \in [Fds -> Buffers \cup {NoBuffer}]
    BY <1>2, IInvIs, SoundIs
  <2> QED
    BY <1>4, <2>1 DEF Full
<1>6. ASSUME NEW fd \in ConnFds PROVE Drops(pool, reg, stack, fd)
  <2>1. fd \in Fds \ {UR}
    BY ConnFdsAre
  <2>2. NoMore(InitPool, pool, fd)
    BY <1>1, <2>1, NumbersAre, InitSound, GetReadLeaves
  <2> QED
    BY <1>3, <2>1, <2>2 DEF NoMore, Drops
<1>7. Sided(reg)
  <2>1. ASSUME NEW fd \in ConnFds PROVE ~ IsRegistered(reg, fd)
    <3>1. fd \in Fds /\ fd # UR /\ fd # UW
      BY ConnFdsAre
    <3>2. kern.sock[fd] = NoSock
      BY <1>1, <3>1 DEF InitKern
    <3> QED
      BY <1>2, <3>1, <3>2, IInvIs, WiredIs
  <2> QED
    BY <2>1 DEF Sided
<1>8. \A fd \in ConnFds : sent[fd] = 0
  BY <1>1, ConnFdsAre
<1> QED
  BY <1>1, <1>5, <1>6, <1>7, <1>8 DEF Orderly, Clean, First

(* A reader that is left has given its packet away, and a tunnel that       *)
(* bootstraps keeps nothing for a link.                                    *)
THEOREM Order == Spec => []Orderly
<1>1. Init => Orderly
  BY InitOrderly
<1>2. IInv /\ Orderly /\ [Next]_vars => Orderly'
  <2> SUFFICES ASSUME IInv, Orderly, [Next]_vars PROVE Orderly'
    OBVIOUS
  <2>1. CASE Poll
    BY <2>1, PollStays
  <2>2. CASE HandleError
    BY <2>2, HandleErrorStays
  <2>3. CASE HandleEvent
    BY <2>3, HandleEventStays
  <2>4. CASE TcpCoNone
    BY <2>4, TcpCoNoneStays
  <2>5. CASE TcpCo
    BY <2>5, TcpCoStays
  <2>6. CASE TcpCoWriter
    BY <2>6, TcpCoWriterStays
  <2>7. CASE TcpRead
    BY <2>7, TcpReadStays
  <2>8. CASE UdpRead
    BY <2>8, UdpReadStays
  <2>9. CASE Dup2Link
    BY <2>9, Dup2LinkStays
  <2>10. CASE Dup2Done
    BY <2>10, Dup2DoneStays
  <2>11. CASE LightningSend
    BY <2>11, LightningSendStays
  <2>12. CASE LightningDone
    BY <2>12, LightningDoneStays
  <2>13. CASE TcpWrite
    BY <2>13, TcpWriteStays
  <2>14. CASE UdpWrite
    BY <2>14, UdpWriteStays
  <2>15. CASE Env
    BY <2>15, UnchangedStays
       DEF Env, Connect, Arrive, Break, UdpError, Drain, EnvVars
  <2>16. CASE UNCHANGED vars
    BY <2>16, UnchangedStays DEF vars
  <2> QED
    BY <2>1, <2>2, <2>3, <2>4, <2>5, <2>6, <2>7, <2>8, <2>9, <2>10, <2>11, <2>12, <2>13,
       <2>14, <2>15, <2>16 DEF Next, Step
<1> QED
  BY <1>1, <1>2, Invariance, PTL DEF Spec

(* A reader that finds a packet in its buffer is called by a writer that    *)
(* dup2 or lightning sends that packet to, or has just been registered     *)
(* under the number of a closed writer: no other step leaves a reader with *)
(* a packet, so that packet.c may take any other for an error.             *)
THEOREM ReadersFindBlank == Spec => []FoundBlank
<1>1. IInv /\ Orderly => FoundBlank
  <2> SUFFICES ASSUME IInv, Orderly, Running("udp-read") \/ Running("tcp-read"),
                      pool.used[Top.fd] # NoBuffer, pool.pkt[pool.used[Top.fd]] # Blank
               PROVE  \/ \E i \in 2 .. Len(stack) :
                           /\ stack[i].pc \in {"dup2", "lightning"}
                           /\ stack[i].bp = pool.used[Top.fd]
                      \/ accepting # NoFd /\ ~ Top.zero
    BY DEF FoundBlank
  <2>1. /\ stack # <<>> /\ fate = "run" /\ Top.fd \in Fds /\ IsRegistered(reg, Top.fd)
        /\ reg.info[Top.fd].cat = Top.pc /\ Top.pc \in Readers
    BY NamesAre, RunningIs DEF Readers
  <2>2. Reads(reg, Top.fd) /\ Full(pool, Top.fd)
    BY <2>1 DEF Reads, Full
  <2>3. CASE Greets(stack, accepting, Top.fd)
    BY <2>3 DEF Greets, Top
  <2>4. CASE Sends(stack, pool.used[Top.fd], Top.fd)
    <3>1. PICK i \in 1 .. Len(stack) :
            stack[i].pc \in Loops /\ stack[i].bp = pool.used[Top.fd]
      BY <2>4 DEF Sends
    <3>2. stack \in Seq(Frame) /\ Top = stack[1] /\ Len(stack) \in Nat
      BY <2>1, IInvIs, TopIs DEF Nested, Top
    <3>3. i # 1
      BY <2>1, <3>1, <3>2 DEF Loops, Readers
    <3>4. i \in 2 .. Len(stack)
      BY <3>2, <3>3
    <3> QED
      BY <3>1, <3>4 DEF Loops
  <2> QED
    BY <2>1, <2>2, <2>3, <2>4 DEF Orderly, Clean
<1> QED
  BY <1>1, Invariance, Order, PTL

(* While the tunnel waits for its links, no datagram goes over one, and at  *)
(* rest none is kept for one, whatever was queued for it before it came up. *)
THEOREM BootstrapStaysEmpty == Spec => []BootstrapDrops
<1>1. IInv /\ Orderly => BootstrapDrops
  BY ConnFdsAre DEF Orderly, BootstrapDrops, Boot, Drops, Writes, Writing, AtRest, AtLoop
<1> QED
  BY <1>1, Invariance, Order, PTL
-----------------------------------------------------------------------------
(* What is due to a writer that still has a packet.                        *)

Pumps(r, fd) == IsRegistered(r, fd) /\ r.info[fd].cat \in Writers
Calls(st, fd) == st # <<>> /\ Head(st).fd = fd /\ Head(st).pc \in Writers
Idle(p, fd)  == p.used[fd] = NoBuffer /\ p.writeWaiting[fd] = <<>>

(* No more than one call of the writer sends. *)
One(p, fd) ==
  p.writeWaiting[fd] = <<>> \/ (p.used[fd] = NoBuffer /\ Len(p.writeWaiting[fd]) = 1)

(* The kernel reports fd now, or when the socket has room again.           *)
Stirred(k, fd) ==
  \/ k.sock[fd] \in k.full \/ <<k.sock[fd], fd, "out">> \in k.ready
  \/ \E w \in k.hup : w[1] = k.sock[fd] /\ w[2] = fd

(* The loop has an event of fd, which it will not ignore. *)
Announced(b, r, fd) == (\E e \in b.err \cup b.cb : e.fd = fd) /\ ~ IsBlacklisted(r, fd)

Woken(k, b, r, fd) == Stirred(k, fd) \/ Announced(b, r, fd)

(* The loop handles an event of fd, and will call its callback again. *)
Due(st, cur, acc, fd) ==
  /\ cur = fd /\ acc = NoFd /\ st # <<>>
  /\ st[Len(st)].zero \/ (Len(st) = 1 /\ Calls(st, fd))

Pumped(fd) ==
  \/ Idle(pool, fd)
  \/ Calls(stack, fd) /\ One(pool, fd)
  \/ Woken(kern, batch, reg, fd)
  \/ Due(stack, current, accepting, fd)

(* epoll watches every writer, the UDP writer on the UDP socket. *)
Hooked(r, k) ==
  \A fd \in Fds : Pumps(r, fd) =>
    /\ <<k.sock[fd], fd, "out">> \in k.watch
    /\ r.info[fd].cat = "udp-write" => k.sock[fd] = UdpSock

Lively ==
  /\ fate = "run" => \A fd \in Fds : Pumps(reg, fd) => Pumped(fd)
  /\ Hooked(reg, kern)

(* fd was a writer, on the socket epoll watches it on ...                   *)
Hangs(fd) ==
  Pumps(reg', fd) =>
    /\ Pumps(reg, fd) /\ reg'.info[fd] = reg.info[fd] /\ kern'.sock[fd] = kern.sock[fd]
    /\ <<kern.sock[fd], fd, "out">> \in kern.watch => <<kern.sock[fd], fd, "out">> \in kern'.watch

(* ... and what wakes it up is still there.                                *)
Still(fd) ==
  Hangs(fd) /\ (Pumps(reg', fd) /\ Woken(kern, batch, reg, fd) => Woken(kern', batch', reg', fd))

(* A writer that has nothing in p still has nothing, or is called for it.   *)
Fed(p, fd) == Idle(p, fd) => Idle(pool', fd) \/ (Calls(stack', fd) /\ One(pool', fd))

LEMMA LivelyAgain ==
  ASSUME Lively, \A fd \in Fds : Hangs(fd),
         fate' = "run" => \A fd \in Fds : Pumps(reg', fd) => Pumped(fd)'
  PROVE  Lively'
<1>1. Hooked(reg', kern')
  BY DEF Lively, Hooked, Hangs
<1> QED
  BY <1>1 DEF Lively

LEMMA LivelyOn ==
  ASSUME Lively, fate = "run", \A fd \in Fds : Still(fd),
         fate' = "run" => \A fd \in Fds : Pumps(reg', fd) =>
           \/ Pumped(fd)'
           \/ /\ Fed(pool, fd) /\ ~ Calls(stack, fd)
              /\ Due(stack, current, accepting, fd) => Due(stack', current', accepting', fd)
  PROVE  Lively'
<1>1. ASSUME fate' = "run", NEW fd \in Fds, Pumps(reg', fd), Fed(pool, fd), ~ Calls(stack, fd),
             Due(stack, current, accepting, fd) => Due(stack', current', accepting', fd)
      PROVE  Pumped(fd)'
  <2>1. Pumped(fd)
    BY <1>1 DEF Lively, Still, Hangs
  <2> QED
    BY <1>1, <2>1 DEF Pumped, Still, Fed
<1> QED
  BY <1>1, LivelyAgain DEF Still

LEMMA NoMoreFed ==
  ASSUME NEW p, NEW fd, NoMore(p, pool', fd)
  PROVE  Fed(p, fd)
  BY DEF NoMore, Fed, Idle

LEMMA FedThrough ==
  ASSUME NEW p, NEW q, NEW fd, NoMore(p, q, fd), Fed(q, fd)
  PROVE  Fed(p, fd)
  BY DEF NoMore, Fed, Idle

(* The kernel under steps that only write or only read.                    *)
LEMMA ConsumedStirs ==
  ASSUME kern \in Kernels, NEW s, NEW fd
  PROVE  /\ Stirred(kern, fd) => Stirred(Consume(s), fd)
         /\ Consume(s).sock = kern.sock /\ Consume(s).watch = kern.watch
<1> DEFINE k == Consume(s)
           x == [kern.rx EXCEPT ![s] = @ - 1]
           y == IF kern.rx[s] = 1 THEN kern.ready \ Ins(kern, s) ELSE kern.ready
<1>1. k = [kern EXCEPT !.rx = x, !.ready = y]
  BY DEF Consume
<1>2. \A w \in kern.ready : w[3] = "out" => w \in y
  BY DEF Ins
<1> HIDE DEF x, y, k
<1>3. k.sock = kern.sock /\ k.watch = kern.watch /\ k.ready = y /\ k.hup = kern.hup
      /\ k.full = kern.full
  BY <1>1 DEF Kernels
<1>4. <<kern.sock[fd], fd, "out">> \in kern.ready => <<kern.sock[fd], fd, "out">> \in y
  BY <1>2
<1> QED
  BY <1>3, <1>4 DEF Stirred, k

LEMMA FilledUpStirs ==
  ASSUME kern \in Kernels, NEW s, NEW fd
  PROVE  /\ Stirred(kern, fd) => Stirred(FillUp(s), fd)
         /\ FillUp(s).sock = kern.sock /\ FillUp(s).watch = kern.watch
         /\ kern.sock[fd] = s => Stirred(FillUp(s), fd)
<1> DEFINE k == FillUp(s)
           x == kern.full \cup {s}
           y == kern.ready \ Outs(kern, s)
<1>1. k = [kern EXCEPT !.full = x, !.ready = y]
  BY DEF FillUp
<1>2. \A w \in kern.ready : w[1] # s => w \in y
  BY DEF Outs, Watches
<1>3. s \in x /\ kern.full \subseteq x
  OBVIOUS
<1> HIDE DEF x, y, k
<1>4. k.sock = kern.sock /\ k.watch = kern.watch /\ k.ready = y /\ k.hup = kern.hup
      /\ k.full = x
  BY <1>1 DEF Kernels
<1>5. <<kern.sock[fd], fd, "out">> \in kern.ready
      => <<kern.sock[fd], fd, "out">> \in y \/ kern.sock[fd] = s
  BY <1>2
<1> QED
  BY <1>3, <1>4, <1>5 DEF Stirred, k

LEMMA StillSame ==
  ASSUME kern \in Kernels, reg' = reg, batch' = batch, NEW fd,
         kern' = kern \/ (\E s : kern' = Consume(s)) \/ (\E s : kern' = FillUp(s))
  PROVE  Still(fd)
<1>1. kern'.sock = kern.sock /\ kern'.watch = kern.watch
      /\ (Stirred(kern, fd) => Stirred(kern', fd))
  BY ConsumedStirs, FilledUpStirs
<1> QED
  BY <1>1 DEF Still, Hangs, Woken

(* close takes nothing from a descriptor that stays open. *)
LEMMA CloseStirs ==
  ASSUME NEW k \in Kernels, NEW g \in Fds, NEW fd \in Fds, fd # g, NEW t, t = Close(k, g)
  PROVE  /\ Stirred(k, fd) => Stirred(t, fd)
         /\ t.sock[fd] = k.sock[fd]
         /\ <<k.sock[fd], fd, "out">> \in k.watch => <<k.sock[fd], fd, "out">> \in t.watch
<1> DEFINE s    == k.sock[g]
           last == \A h \in Fds : k.sock[h] = s => h = g
           gone == IF last THEN Watches(k, s) ELSE {}
           x    == [k.sock EXCEPT ![g] = NoSock]
<1>1. t = [k EXCEPT !.sock = x, !.watch = k.watch \ gone, !.ready = k.ready \ gone,
                    !.hup = k.hup \ gone]
  BY DEF Close
<1>2. \A w \in gone : w[1] # k.sock[fd]
  BY DEF Watches
<1>3. x[fd] = k.sock[fd]
  BY KernelIs
<1> HIDE DEF s, last, gone, x
<1>4. t.sock = x /\ t.watch = k.watch \ gone /\ t.ready = k.ready \ gone
      /\ t.hup = k.hup \ gone /\ t.full = k.full
  BY <1>1 DEF Kernels
<1>5. <<k.sock[fd], fd, "out">> \notin gone
  BY <1>2
<1> QED
  BY <1>2, <1>3, <1>4, <1>5 DEF Stirred

LEMMA RmBlack ==
  ASSUME NEW r \in Registry, NEW g \in Fds, NEW fd \in Fds, fd # g, NEW t, t = RmFd(r, g),
         IsRegistered(r, g)
  PROVE  /\ IsBlacklisted(t, fd) <=> IsBlacklisted(r, fd)
         /\ t.info[fd] = r.info[fd] /\ t.info[g] = NoInfo
<1> DEFINE b == Append(r.black, g)
           i == [r.info EXCEPT ![g] = NoInfo]
<1>1. t.black = b /\ t.info = i
  BY DEF RmFd, Registry
<1>2. r.black \in Seq(Fds) /\ r.info \in [Fds -> Info \cup {NoInfo}]
  BY DEF Registry
<1>3. i[fd] = r.info[fd] /\ i[g] = NoInfo
  BY <1>2
<1>4. (\E j \in DOMAIN b : b[j] = fd) <=> \E j \in DOMAIN r.black : r.black[j] = fd
  <2>1. /\ DOMAIN b = 1 .. Len(r.black) + 1 /\ DOMAIN r.black = 1 .. Len(r.black)
        /\ Len(r.black) \in Nat /\ b[Len(r.black) + 1] = g
        /\ \A j \in 1 .. Len(r.black) : b[j] = r.black[j]
    BY <1>2
  <2> HIDE DEF b
  <2> QED
    BY <2>1
<1> QED
  BY <1>1, <1>3, <1>4 DEF IsBlacklisted

(* From r and k to s and l, fd keeps what wakes it up, with the events in b. *)
Carries(r, k, b, s, l, fd) ==
  Pumps(s, fd) =>
    /\ Pumps(r, fd) /\ s.info[fd] = r.info[fd] /\ l.sock[fd] = k.sock[fd]
    /\ <<k.sock[fd], fd, "out">> \in k.watch => <<k.sock[fd], fd, "out">> \in l.watch
    /\ Woken(k, b, r, fd) => Woken(l, b, s, fd)

(* evt_core_rm_fd of g leaves to the others what wakes them up.            *)
LEMMA RemovedCarries ==
  ASSUME NEW r \in Registry, NEW k \in Kernels, NEW g \in Fds, IsRegistered(r, g), NEW b,
         NEW fd \in Fds, NEW s, s = RmFd(r, g), NEW l, l = Close(k, g)
  PROVE  Carries(r, k, b, s, l, fd)
<1>1. CASE fd = g
  <2>1. s.info = [r.info EXCEPT ![g] = NoInfo] /\ r.info \in [Fds -> Info \cup {NoInfo}]
    BY DEF RmFd, Registry
  <2> QED
    BY <1>1, <2>1 DEF Carries, Pumps, IsRegistered
<1>2. CASE fd # g
  <2>1. (IsBlacklisted(s, fd) <=> IsBlacklisted(r, fd)) /\ s.info[fd] = r.info[fd]
    BY <1>2, RmBlack
  <2>2. /\ Stirred(k, fd) => Stirred(l, fd)
        /\ l.sock[fd] = k.sock[fd]
        /\ <<k.sock[fd], fd, "out">> \in k.watch => <<k.sock[fd], fd, "out">> \in l.watch
    BY <1>2, CloseStirs
  <2> QED
    BY <2>1, <2>2 DEF Carries, Woken, Announced, Pumps, IsRegistered
<1> QED
  BY <1>1, <1>2

LEMMA StillRemoved ==
  ASSUME IInv, NEW g \in Fds, IsRegistered(reg, g), reg' = RmFd(reg, g), kern' = Close(kern, g),
         batch' = batch, NEW fd \in Fds
  PROVE  Still(fd)
<1>1. Carries(reg, kern, batch, reg', kern', fd)
  BY IInvIs, WiredIs, RemovedCarries
<1> QED
  BY <1>1 DEF Carries, Still, Hangs

LEMMA BottomIs ==
  ASSUME NEW S, NEW st \in Seq(S), st # <<>>
  PROVE  /\ Len(st) \in Nat \ {0}
         /\ Len(st) = 1 => Head(st) = st[Len(st)] /\ Tail(st) = <<>>
         /\ Len(st) # 1 => Tail(st) # <<>> /\ Tail(st)[Len(Tail(st))] = st[Len(st)]
<1> DEFINE t == Tail(st)
           n == Len(t)
<1>1. Len(st) \in Nat \ {0} /\ Head(st) = st[1]
  OBVIOUS
<1>2. t \in Seq(S) /\ n = Len(st) - 1 /\ \A i \in 1 .. n : t[i] = st[i + 1]
  OBVIOUS
<1> HIDE DEF t
<1>3. ASSUME Len(st) = 1
      PROVE  Head(st) = st[Len(st)] /\ t = <<>>
  <2>1. Len(t) = 0
    BY <1>1, <1>2, <1>3
  <2> QED
    BY <1>1, <1>2, <1>3, <2>1, NoneIs
<1>4. ASSUME Len(st) # 1
      PROVE  t # <<>> /\ t[n] = st[Len(st)]
  <2>1. n # 0 /\ n \in 1 .. n /\ n + 1 = Len(st)
    BY <1>1, <1>2, <1>4
  <2>2. t # <<>>
    BY <2>1
  <2>3. t[n] = st[n + 1]
    BY <1>2, <2>1
  <2> QED
    BY <2>1, <2>2, <2>3
<1> QED
  BY <1>1, <1>3, <1>4 DEF t

LEMMA PushedBottom ==
  ASSUME NEW st \in Seq(Frame), NEW f
  PROVE  /\ <<f>> \o st # <<>> /\ Head(<<f>> \o st) = f
         /\ st = <<>> => Len(<<f>> \o st) = 1 /\ (<<f>> \o st)[Len(<<f>> \o st)] = f
         /\ st # <<>> => (<<f>> \o st)[Len(<<f>> \o st)] = st[Len(st)]
<1> DEFINE S == Frame \cup {f}
           t == <<f>> \o st
<1>1. <<f>> \in Seq(S) /\ st \in Seq(S)
  OBVIOUS
<1>2. /\ t \in Seq(S) /\ Len(t) = Len(st) + 1 /\ t[1] = f
      /\ \A i \in 1 .. Len(st) : t[i + 1] = st[i]
  BY <1>1
<1>3. Len(st) \in Nat /\ (st = <<>> <=> Len(st) = 0)
  OBVIOUS
<1> HIDE DEF t
<1>4. t # <<>> /\ Head(t) = f
  BY <1>2, <1>3
<1>5. st = <<>> => Len(t) = 1 /\ t[Len(t)] = f
  BY <1>2, <1>3
<1>6. st # <<>> => t[Len(t)] = st[Len(st)]
  <2>1. st # <<>> => Len(st) \in 1 .. Len(st)
    BY <1>3
  <2> QED
    BY <1>2, <1>3, <2>1
<1> QED
  BY <1>4, <1>5, <1>6 DEF t

(* The loop calls fd again: because of what its callback answers, or        *)
(* because the caller answers 0 whatever that is.                          *)
LEMMA ReturnDue ==
  ASSUME Called, NEW v, Return(v), fate' = "run", NEW fd \in Fds, Pumps(reg', fd),
         Due(stack, current, accepting, fd), Len(stack) = 1 => v = 0
  PROVE  Due(stack', current', accepting', fd)
<1>1. stack \in Seq(Frame) /\ stack # <<>>
  BY CalledIs DEF Called
<1>2. current = fd /\ accepting = NoFd /\ IsRegistered(reg', fd) /\ accepting' = accepting
  BY DEF Due, Pumps, Return
<1>3. CASE Len(stack) = 1
  <2> DEFINE f == Callback(reg', fd, FALSE)
  <2>1. stack' = <<f>> /\ current' = fd
    BY <1>2, <1>3 DEF Return
  <2>2. f.fd = fd /\ f.pc \in Writers
    BY DEF Callback, Pumps
  <2> HIDE DEF f
  <2>3. stack' # <<>> /\ Len(stack') = 1 /\ Head(stack') = f
    BY <2>1
  <2> QED
    BY <1>2, <2>1, <2>2, <2>3 DEF Due, Calls
<1>4. CASE Len(stack) # 1
  <2>1. stack' = Tail(stack) /\ current' = fd
    BY <1>2, <1>4 DEF Return
  <2>2. stack[Len(stack)].zero
    BY <1>4 DEF Due
  <2>3. Tail(stack) # <<>> /\ Tail(stack)[Len(Tail(stack))] = stack[Len(stack)]
    BY <1>1, <1>4, BottomIs
  <2> QED
    BY <1>2, <2>1, <2>2, <2>3 DEF Due
<1> QED
  BY <1>3, <1>4

LEMMA AnswerDue ==
  ASSUME Called, NEW v, Answer(v), fate' = "run", NEW fd \in Fds, Pumps(reg', fd),
         Due(stack, current, accepting, fd), v = 0 \/ ~ Calls(stack, fd)
  PROVE  Due(stack', current', accepting', fd)
<1> DEFINE u == IF Top.zero THEN 0 ELSE v
<1>1. Return(u)
  BY DEF Answer
<1>2. Len(stack) = 1 => u = 0
  <2>1. stack \in Seq(Frame) /\ stack # <<>>
    BY CalledIs DEF Called
  <2>2. Len(stack) = 1 => Top = stack[Len(stack)]
    BY <2>1, BottomIs DEF Top
  <2> QED
    BY <2>2 DEF Due
<1> HIDE DEF u
<1> QED
  BY <1>1, <1>2, ReturnDue

LEMMA CallDue ==
  ASSUME Called, NEW f, TailCall(f), NEW fd, Due(stack, current, accepting, fd),
         f.zero \/ (~ Calls(stack, fd) /\ f.zero = Top.zero)
  PROVE  Due(stack', current', accepting', fd)
<1>1. stack \in Seq(Frame) /\ stack # <<>> /\ Tail(stack) \in Seq(Frame)
  BY CalledIs DEF Called, Waiting
<1>2. stack' = <<f>> \o Tail(stack) /\ current' = current /\ accepting' = accepting
  BY DEF TailCall
<1>3. CASE Len(stack) = 1
  <2>1. Tail(stack) = <<>> /\ Top = stack[Len(stack)]
    BY <1>1, <1>3, BottomIs DEF Top
  <2>2. f.zero
    BY <2>1 DEF Due
  <2>3. stack' # <<>> /\ stack'[Len(stack')] = f
    BY <1>1, <1>2, <2>1, PushedBottom
  <2> QED
    BY <1>2, <2>2, <2>3 DEF Due
<1>4. CASE Len(stack) # 1
  <2>1. stack[Len(stack)].zero
    BY <1>4 DEF Due
  <2>2. Tail(stack) # <<>> /\ Tail(stack)[Len(Tail(stack))] = stack[Len(stack)]
    BY <1>1, <1>4, BottomIs
  <2>3. stack' # <<>> /\ stack'[Len(stack')] = stack[Len(stack)]
    BY <1>1, <1>2, <2>2, PushedBottom
  <2> QED
    BY <1>2, <2>1, <2>3 DEF Due
<1> QED
  BY <1>3, <1>4

LEMMA NotifyDue ==
  ASSUME Called, NEW p, notify_read(p), fate' = "run", NEW fd \in Fds, Pumps(reg', fd),
         Due(stack, current, accepting, fd)
  PROVE  Due(stack', current', accepting', fd)
<1>1. CASE p.readWaiting = <<>>
  BY <1>1, ReturnDue DEF notify_read
<1>2. CASE p.readWaiting # <<>>
  <2>1. \E n : TailCall(Callback(reg, n, TRUE))
    BY <1>2 DEF notify_read
  <2>2. PICK n : TailCall(Callback(reg, n, TRUE))
    BY <2>1
  <2>3. Callback(reg, n, TRUE).zero
    BY DEF Callback
  <2> QED
    BY <2>2, <2>3, CallDue
<1> QED
  BY <1>1, <1>2

LEMMA StreamDue ==
  ASSUME Called, NEW g, NEW p, on_stream(p, g), fate' = "run", NEW fd \in Fds, Pumps(reg', fd),
         Due(stack, current, accepting, fd), ~ Calls(stack, fd)
  PROVE  Due(stack', current', accepting', fd)
<1>1. CASE TailCall(Callback(reg, UW, TRUE))
  <2>1. Callback(reg, UW, TRUE).zero
    BY DEF Callback
  <2> QED
    BY <1>1, <2>1, CallDue
<1>2. CASE Answer(1) \/ Answer(0)
  BY <1>2, AnswerDue
<1> QED
  BY <1>1, <1>2 DEF on_stream

LEMMA DatagramDue ==
  ASSUME Called, NEW g, NEW p, on_datagram(p, g), fate' = "run", NEW fd \in Fds, algo \in Algos,
         Pumps(reg', fd), Due(stack, current, accepting, fd), ~ Calls(stack, fd)
  PROVE  Due(stack', current', accepting', fd)
<1>1. algo = "naive" \/ algo = "dup2" \/ algo = "lightning"
  BY ProxyAssumption
<1>2. Answer(1) \/ \E f : TailCall(f) /\ (f.zero \/ f.zero = Top.zero)
  <2>1. CASE algo = "naive"
    <3>1. Answer(1) \/ TailCall(Callback(reg, reg.list["tcp-write"][1], TRUE))
      BY <2>1 DEF on_datagram, NaiveOnDatagram
    <3>2. Callback(reg, reg.list["tcp-write"][1], TRUE).zero
      BY DEF Callback
    <3> QED
      BY <3>1, <3>2
  <2>2. CASE algo = "dup2"
    <3> DEFINE f == [pc |-> "dup2", fd |-> g, bp |-> p.used[g], i |-> 1, links |-> <<>>,
                     zero |-> Top.zero]
    <3>1. TailCall(f) /\ f.zero = Top.zero
      BY <2>2 DEF on_datagram, Dup2OnDatagram
    <3> QED
      BY <3>1
  <2>3. CASE algo = "lightning"
    <3> DEFINE f(links) == [pc |-> "lightning", fd |-> g, bp |-> p.used[g], i |-> 0,
                            links |-> links, zero |-> Top.zero]
           Few == {<<>>} \cup {<<l>> : l \in Ports} \cup {<<h, i>> : h \in Ports, i \in Ports}
    <3>1. \E links \in Few : TailCall(f(links))
      BY <2>3 DEF on_datagram, LightningOnDatagram
    <3>2. \A links : f(links).zero = Top.zero
      OBVIOUS
    <3> HIDE DEF f, Few
    <3> QED
      BY <3>1, <3>2
  <2> QED
    BY <1>1, <2>1, <2>2, <2>3
<1> QED
  BY <1>2, AnswerDue, CallDue

(* What an algorithm passes on is for one writer, which it calls.          *)
LEMMA StreamFeeds ==
  ASSUME Called, reg' = reg, NEW fd \in Fds, NEW p, Sound(p), on_stream(p, fd), NEW g \in Fds
  PROVE  Fed(p, g)
<1>1. CASE pool' = mv_buffer_rtow(p, fd, UW) /\ TailCall(Callback(reg, UW, TRUE))
  <2>1. UW \in Fds /\ IsRegistered(reg, UW) /\ reg.info[UW].cat = "udp-write"
    BY NumbersAre, WiredIs DEF Called
  <2>2. /\ \A h \in Fds \ {UW} : NoMore(p, pool', h)
        /\ p.used[UW] = NoBuffer => pool'.used[UW] = NoBuffer
        /\ p.writeWaiting[UW] = <<>> => Len(pool'.writeWaiting[UW]) = 1
    BY <1>1, <2>1, ReadToWriteLeaves
  <2>3. Head(stack').pc = "udp-write" /\ Head(stack').fd = UW /\ stack' # <<>>
    BY <1>1, <2>1, CallbackMoves
  <2>4. CASE g = UW
    BY <2>2, <2>3, <2>4 DEF Fed, Idle, One, Calls, Writers
  <2> QED
    BY <2>2, <2>4, NoMoreFed
<1>2. CASE pool' = mv_buffer_rtof(p, fd) /\ (Answer(1) \/ Answer(0))
  <2>1. NoMore(p, pool', g)
    BY <1>2, ReadToFreeLeaves
  <2> QED
    BY <2>1, NoMoreFed
<1> QED
  BY <1>1, <1>2 DEF on_stream

LEMMA DatagramFeeds ==
  ASSUME NEW p, NEW fd, Passed(p, fd), fate' = "run", NEW g \in Fds
  PROVE  Fed(p, g)
<1>1. PICK to \in Fds : Given(p, to) /\ (to = UW => NoMore(p, pool', UW))
  BY DEF Passed
<1>2. CASE g = to /\ to # UW
  BY <1>1, <1>2 DEF Given, Writing, Fed, Idle, One, Calls, Writers
<1>3. CASE g # to \/ to = UW
  <2>1. NoMore(p, pool', g)
    BY <1>1, <1>3 DEF Given
  <2> QED
    BY <2>1, NoMoreFed
<1> QED
  BY <1>2, <1>3

(* The steps.                                                              *)

LEMMA TcpReadPumps == ASSUME IInv, Lively, TcpRead PROVE Lively'
<1> DEFINE fd == Top.fd
           s  == SockOf(fd)
           p  == get_read_buffer(pool, fd)
           b  == p.used[fd]
<1>1. /\ stack # <<>> /\ fate = "run" /\ fd \in Fds /\ Top.pc = "tcp-read"
      /\ IsRegistered(reg, fd) /\ reg.info[fd].cat = "tcp-read" /\ s \in Files
  BY NamesAre, RunningIs DEF TcpRead, SockOf
<1>2. batch' = batch /\ Sound(pool) /\ kern \in Kernels
  BY IInvIs DEF TcpRead, ReadVars
<1>3. Sound(p)
  BY <1>1, IInvIs, GetRead
<1>4. \/ UNCHANGED <<reg, kern>> /\ pool' = p /\ Answer(1)
      \/ rm_fd(mv_buffer_rtof(p, fd), fd) /\ Answer(1)
      \/ /\ b # NoBuffer /\ kern.rx[s] > 0 /\ kern' = Consume(s) /\ UNCHANGED reg
         /\ on_stream(FillBuffer(p, fd, Cell), fd)
      \/ UNCHANGED <<reg, kern>> /\ on_stream(p, fd)
  BY DEF TcpRead
<1>5. \A g \in Fds : Pumps(reg, g) => g # fd /\ NoMore(pool, p, g)
  BY <1>1, <1>2, GetReadLeaves DEF Pumps, Writers
<1>6. \A g : ~ Calls(stack, g)
  BY <1>1 DEF Calls, Top, Writers
<1> HIDE DEF fd, s, p, b
<1>7. CASE UNCHANGED <<reg, kern>> /\ pool' = p /\ Answer(1)
  <2>1. Called
    BY <1>1, <1>7, StillCalled
  <2>2. \A g \in Fds : Still(g)
    BY <1>2, <1>7, StillSame
  <2>3. \A g \in Fds : Pumps(reg', g) => Fed(pool, g)
    BY <1>5, <1>7, NoMoreFed
  <2> QED
    BY <1>1, <1>6, <1>7, <2>1, <2>2, <2>3, AnswerDue, LivelyOn
<1>8. CASE rm_fd(mv_buffer_rtof(p, fd), fd) /\ Answer(1)
  <2> DEFINE q == mv_buffer_rtof(p, fd)
  <2>1. Sound(q) /\ \A g \in Fds : NoMore(p, q, g)
    BY <1>1, <1>3, ReadToFree, ReadToFreeLeaves
  <2> HIDE DEF q
  <2>2. rm_fd(q, fd)
    BY <1>8 DEF q
  <2>3. Called
    BY <1>1, <2>1, <2>2, Removing
  <2>4. \A g \in Fds : Still(g)
    BY <1>1, <1>2, <2>2, StillRemoved DEF rm_fd
  <2>5. \A g \in Fds : NoMore(q, pool', g)
    BY <2>1, <2>2, WaiterLeaves DEF rm_fd
  <2>6. \A g \in Fds : Pumps(reg', g) => Fed(pool, g)
    <3>1. \A g \in Fds : Pumps(reg', g) => Pumps(reg, g)
      BY <2>4 DEF Still, Hangs
    <3> QED
      BY <1>5, <2>1, <2>5, <3>1, NoMoreThen, NoMoreFed
  <2> QED
    BY <1>1, <1>6, <1>8, <2>3, <2>4, <2>6, AnswerDue, LivelyOn
<1>9. CASE /\ b # NoBuffer /\ kern.rx[s] > 0 /\ kern' = Consume(s) /\ UNCHANGED reg
           /\ on_stream(FillBuffer(p, fd, Cell), fd)
  <2> DEFINE q == FillBuffer(p, fd, Cell)
  <2>1. kern'.sock = kern.sock
    BY <1>1, <1>2, <1>9, Consuming
  <2>2. Called
    BY <1>1, <1>9, <2>1, StillCalled
  <2>3. \A g \in Fds : Still(g)
    BY <1>2, <1>9, StillSame
  <2>4. Sound(q)
    <3>1. Cell \in Packets
      BY ProxyAssumption DEF Cell
    <3> QED
      BY <1>1, <1>3, <1>9, <3>1, Filled DEF b
  <2>5. \A g \in Fds \ {fd} : NoMore(p, q, g)
    BY <1>1, <1>3, <1>9, FilledLeaves DEF b
  <2> HIDE DEF q
  <2>6. on_stream(q, fd)
    BY <1>9 DEF q
  <2>7. \A g \in Fds : Fed(q, g)
    BY <1>1, <1>9, <2>2, <2>4, <2>6, StreamFeeds
  <2>8. \A g \in Fds : Pumps(reg', g) => Fed(pool, g)
    BY <1>5, <1>9, <2>5, <2>7, NoMoreThen, FedThrough
  <2> QED
    BY <1>1, <1>6, <2>2, <2>3, <2>6, <2>8, StreamDue, LivelyOn
<1>10. CASE UNCHANGED <<reg, kern>> /\ on_stream(p, fd)
  <2>1. Called
    BY <1>1, <1>10, StillCalled
  <2>2. \A g \in Fds : Still(g)
    BY <1>2, <1>10, StillSame
  <2>3. \A g \in Fds : Fed(p, g)
    BY <1>1, <1>3, <1>10, <2>1, StreamFeeds
  <2>4. \A g \in Fds : Pumps(reg', g) => Fed(pool, g)
    BY <1>5, <1>10, <2>3, FedThrough
  <2> QED
    BY <1>1, <1>6, <1>10, <2>1, <2>2, <2>4, StreamDue, LivelyOn
<1> QED
  BY <1>4, <1>7, <1>8, <1>9, <1>10

LEMMA UdpReadPumps == ASSUME IInv, Lively, UdpRead PROVE Lively'
<1> DEFINE fd == Top.fd
           p  == get_read_buffer(pool, fd)
           b  == p.used[fd]
<1>1. /\ stack # <<>> /\ fate = "run" /\ fd \in Fds /\ Top.pc = "udp-read"
      /\ IsRegistered(reg, fd) /\ reg.info[fd].cat = "udp-read"
  BY NamesAre, RunningIs DEF UdpRead
<1>2. batch' = batch /\ reg' = reg /\ Sound(pool) /\ kern \in Kernels
  BY IInvIs DEF UdpRead, ReadVars
<1>3. Sound(p)
  BY <1>1, IInvIs, GetRead
<1>4. \/ /\ kern' = kern \/ (kern.rx[UdpSock] > 0 /\ kern' = Consume(UdpSock))
         /\ pool' = p \/ pool' = mv_buffer_rtof(p, fd)
         /\ Answer(1) \/ Answer(0)
      \/ /\ b # NoBuffer /\ kern.rx[UdpSock] > 0 /\ kern' = Consume(UdpSock)
         /\ on_datagram(FillBuffer(p, fd, stamp + 1), fd)
  BY DEF UdpRead
<1>5. \A g \in Fds : Pumps(reg, g) => g # fd /\ NoMore(pool, p, g)
  BY <1>1, <1>2, GetReadLeaves DEF Pumps, Writers
<1>6. \A g : ~ Calls(stack, g)
  BY <1>1 DEF Calls, Top, Writers
<1> HIDE DEF fd, p, b
<1>7. kern' = kern \/ (kern.rx[UdpSock] > 0 /\ kern' = Consume(UdpSock))
  BY <1>4
<1>8. Called
  <2>1. kern'.sock = kern.sock
    BY <1>2, <1>7, FilesAre, Consuming
  <2> QED
    BY <1>1, <1>2, <2>1, StillCalled
<1>9. \A g \in Fds : Still(g)
  BY <1>2, <1>7, StillSame
<1>10. CASE /\ pool' = p \/ pool' = mv_buffer_rtof(p, fd)
            /\ Answer(1) \/ Answer(0)
  <2>1. \A g \in Fds : NoMore(p, pool', g)
    BY <1>1, <1>3, <1>10, NoMoreSame, ReadToFreeLeaves
  <2>2. \A g \in Fds : Pumps(reg', g) => Fed(pool, g)
    BY <1>2, <1>5, <2>1, NoMoreThen, NoMoreFed
  <2> QED
    BY <1>1, <1>6, <1>8, <1>9, <1>10, <2>2, AnswerDue, LivelyOn
<1>11. CASE /\ b # NoBuffer /\ kern.rx[UdpSock] > 0
            /\ on_datagram(FillBuffer(p, fd, stamp + 1), fd)
  <2> DEFINE q == FillBuffer(p, fd, stamp + 1)
  <2>1. stamp + 1 \in Packets
    <3>1. /\ kern.rx[UdpSock] \in Nat /\ stamp \in Nat /\ left \in Nat /\ MaxPackets \in Nat
          /\ stamp + left + kern.rx[UdpSock] <= MaxPackets
      BY IInvIs
    <3> QED
      BY <1>11, <3>1, ProxyAssumption
  <2>2. Sound(q) /\ q.used = p.used
    BY <1>1, <1>3, <1>11, <2>1, Filled DEF b
  <2>3. \A g \in Fds \ {fd} : NoMore(p, q, g)
    BY <1>1, <1>3, <1>11, FilledLeaves DEF b
  <2> HIDE DEF q
  <2>4. on_datagram(q, fd) /\ q.used[fd] # NoBuffer
    BY <1>11, <2>2 DEF q, b
  <2>5. uniq_pkt_sent_id \in Nat /\ algo \in Algos
    BY IInvIs
  <2>6. Passed(q, fd)
    BY <1>1, <1>2, <1>8, <2>2, <2>4, <2>5, DatagramPasses
  <2>7. fate' = "run" => \A g \in Fds : Pumps(reg', g) => Fed(pool, g)
    BY <1>2, <1>5, <2>3, <2>6, DatagramFeeds, NoMoreThen, FedThrough
  <2> QED
    BY <1>1, <1>6, <1>8, <1>9, <2>4, <2>5, <2>7, DatagramDue, LivelyOn
<1> QED
  BY <1>4, <1>10, <1>11

(* A writer that has stopped has nothing left, or something wakes it up.    *)
LEMMA StoppedPumps ==
  ASSUME Lively, fate = "run", fate' = "run", NEW fd \in Fds, Still(fd), Pumps(reg', fd),
         Idle(pool, fd) \/ One(pool, fd) => Idle(pool', fd),
         Due(stack, current, accepting, fd) => Due(stack', current', accepting', fd)
  PROVE  Pumped(fd)'
<1>1. Pumped(fd)
  BY DEF Lively, Still, Hangs
<1> QED
  BY <1>1 DEF Pumped, Still

(* What is left of the queue once fd has sent a packet, or found none.      *)
LEMMA SentIs ==
  ASSUME NEW fd \in Fds, NEW p, p = get_write_buffer(pool, fd), Sound(pool), Sound(p)
  PROVE  /\ \A g \in Fds \ {fd} : NoMore(pool, p, g)
         /\ p.used[fd] = NoBuffer => Idle(p, fd)
         /\ p.used[fd] # NoBuffer => ~ Idle(pool, fd)
         /\ p.used[fd] # NoBuffer /\ One(pool, fd) => p.writeWaiting[fd] = <<>>
<1>1. /\ \A g \in Fds \ {fd} : NoMore(pool, p, g)
      /\ \/ p = pool
         \/ /\ pool.used[fd] = NoBuffer /\ p.used[fd] # NoBuffer
            /\ pool.writeWaiting[fd] # <<>>
            /\ p.writeWaiting[fd] = Tail(pool.writeWaiting[fd])
      /\ p.used[fd] = NoBuffer => pool.writeWaiting[fd] = <<>>
  BY GetWriteLeaves
<1>2. pool.writeWaiting[fd] \in Seq(Buffers)
  BY SoundIs
<1>3. p.used[fd] # NoBuffer /\ One(pool, fd) => p.writeWaiting[fd] = <<>>
  BY <1>1, <1>2, OneLeft DEF One
<1> QED
  BY <1>1, <1>3 DEF Idle

(* The four ways a writer ends: it finds nothing, or has sent or dropped a  *)
(* packet and answers 0, or its socket is full, or it is removed.          *)
LEMMA WriterPumps ==
  ASSUME IInv, Lively, Called, batch' = batch, \A g \in Fds : Still(g),
         NEW fd \in Fds, Top.fd = fd, NEW p, p = get_write_buffer(pool, fd), Sound(p),
         NEW q, q = mv_buffer_wtof(p, fd),
         \/ p.used[fd] = NoBuffer /\ pool' = p /\ Answer(1)
         \/ p.used[fd] # NoBuffer /\ reg' = reg /\ notify_read(q)
         \/ p.used[fd] # NoBuffer /\ pool' = q /\ Answer(0)
         \/ Stirred(kern', fd) /\ pool' = p /\ Answer(1)
         \/ ~ Pumps(reg', fd) /\ pool' = ForgetFd(q, fd) /\ Answer(1)
  PROVE  Lively'
<1>1. fate = "run" /\ Sound(pool) /\ Sound(q)
  BY IInvIs, WriteToFree DEF Called
<1>2. /\ \A g \in Fds \ {fd} : NoMore(pool, p, g)
      /\ p.used[fd] = NoBuffer => Idle(p, fd)
      /\ p.used[fd] # NoBuffer => ~ Idle(pool, fd)
      /\ p.used[fd] # NoBuffer /\ One(pool, fd) => p.writeWaiting[fd] = <<>>
  BY <1>1, SentIs
<1>3. /\ \A g \in Fds : NoMore(p, q, g)
      /\ q.used[fd] = NoBuffer /\ q.writeWaiting = p.writeWaiting
  BY <1>1, ReadToFreeLeaves DEF mv_buffer_wtof
<1>4. \A g \in Fds \ {fd} : NoMore(pool, q, g)
  BY <1>2, <1>3, NoMoreThen
<1>5. ASSUME NEW g \in Fds, g # fd PROVE ~ Calls(stack, g)
  BY <1>5 DEF Calls, Top
<1>6. CASE p.used[fd] = NoBuffer /\ pool' = p /\ Answer(1)
  <2>1. \A g \in Fds \ {fd} : Fed(pool, g)
    BY <1>2, <1>6, NoMoreFed
  <2>2. Pumped(fd)'
    BY <1>2, <1>6 DEF Pumped
  <2> QED
    BY <1>1, <1>5, <1>6, <2>1, <2>2, AnswerDue, LivelyOn
<1>7. CASE p.used[fd] # NoBuffer /\ reg' = reg /\ notify_read(q)
  <2>1. /\ \A g \in Fds : NoMore(q, pool', g)
        /\ pool'.used = q.used /\ pool'.writeWaiting = q.writeWaiting
    BY <1>1, <1>7, NotifyMoves
  <2>2. \A g \in Fds \ {fd} : Fed(pool, g)
    BY <1>4, <2>1, NoMoreThen, NoMoreFed
  <2>3. Idle(pool, fd) \/ One(pool, fd) => Idle(pool', fd)
    BY <1>2, <1>3, <1>7, <2>1 DEF Idle
  <2>4. ASSUME fate' = "run", Pumps(reg', fd) PROVE Pumped(fd)'
    BY <1>1, <1>7, <2>3, <2>4, NotifyDue, StoppedPumps
  <2> QED
    BY <1>1, <1>5, <1>7, <2>2, <2>4, NotifyDue, LivelyOn
<1>8. CASE p.used[fd] # NoBuffer /\ pool' = q /\ Answer(0)
  <2>1. \A g \in Fds \ {fd} : Fed(pool, g)
    BY <1>4, <1>8, NoMoreFed
  <2>2. Idle(pool, fd) \/ One(pool, fd) => Idle(pool', fd)
    BY <1>2, <1>3, <1>8 DEF Idle
  <2>3. ASSUME fate' = "run", Pumps(reg', fd) PROVE Pumped(fd)'
    BY <1>1, <1>8, <2>2, <2>3, AnswerDue, StoppedPumps
  <2> QED
    BY <1>1, <1>5, <1>8, <2>1, <2>3, AnswerDue, LivelyOn
<1>9. CASE Stirred(kern', fd) /\ pool' = p /\ Answer(1)
  <2>1. \A g \in Fds \ {fd} : Fed(pool, g)
    BY <1>2, <1>9, NoMoreFed
  <2>2. Pumped(fd)'
    BY <1>9 DEF Pumped, Woken
  <2> QED
    BY <1>1, <1>5, <1>9, <2>1, <2>2, AnswerDue, LivelyOn
<1>10. CASE ~ Pumps(reg', fd) /\ pool' = ForgetFd(q, fd) /\ Answer(1)
  <2>1. \A g \in Fds : NoMore(q, pool', g)
    BY <1>1, <1>10, WaiterLeaves
  <2>2. \A g \in Fds \ {fd} : Fed(pool, g)
    BY <1>4, <2>1, NoMoreThen, NoMoreFed
  <2> QED
    BY <1>1, <1>5, <1>10, <2>2, AnswerDue, LivelyOn
<1> QED
  BY <1>6, <1>7, <1>8, <1>9, <1>10

LEMMA TcpWritePumps == ASSUME IInv, Lively, TcpWrite PROVE Lively'
<1> DEFINE fd == Top.fd
           s  == SockOf(fd)
           p  == get_write_buffer(pool, fd)
           q  == mv_buffer_wtof(p, fd)
<1>1. /\ stack # <<>> /\ fate = "run" /\ fd \in Fds /\ s \in Files
      /\ IsRegistered(reg, fd) /\ reg.info[fd].cat = "tcp-write"
  BY NamesAre, RunningIs DEF TcpWrite, SockOf
<1>2. batch' = batch /\ Sound(pool) /\ kern \in Kernels /\ reg \in Registry
  BY IInvIs, WiredIs DEF TcpWrite, WriteVars
<1>3. Sound(p) /\ Sound(q)
  BY <1>1, <1>2, GetWrite, WriteToFree
<1>4. \/ UNCHANGED <<reg, kern>> /\ p.used[fd] = NoBuffer /\ pool' = p /\ Answer(1)
      \/ UNCHANGED <<reg, kern>> /\ p.used[fd] # NoBuffer /\ notify_read(q)
      \/ reg' = reg /\ kern' = FillUp(s) /\ pool' = p /\ Answer(1)
      \/ rm_fd(q, fd) /\ Answer(1)
  BY DEF TcpWrite
<1>5. s = kern.sock[fd]
  BY DEF SockOf
<1> HIDE DEF fd, s, p, q
<1>6. CASE /\ UNCHANGED <<reg, kern>>
           /\ \/ p.used[fd] = NoBuffer /\ pool' = p /\ Answer(1)
              \/ p.used[fd] # NoBuffer /\ notify_read(q)
  <2>1. Called /\ \A g \in Fds : Still(g)
    BY <1>1, <1>2, <1>6, StillCalled, StillSame
  <2> QED
    BY <1>1, <1>2, <1>3, <1>6, <2>1, WriterPumps DEF fd, p, q
<1>7. CASE reg' = reg /\ kern' = FillUp(s) /\ pool' = p /\ Answer(1)
  <2>1. kern'.sock = kern.sock /\ Stirred(kern', fd)
    BY <1>1, <1>2, <1>5, <1>7, Filling, FilledUpStirs
  <2>2. Called /\ \A g \in Fds : Still(g)
    BY <1>1, <1>2, <1>7, <2>1, StillCalled, StillSame
  <2> QED
    BY <1>1, <1>2, <1>3, <1>7, <2>1, <2>2, WriterPumps DEF fd, p, q
<1>8. CASE rm_fd(q, fd) /\ Answer(1)
  <2>1. Called
    BY <1>1, <1>3, <1>8, Removing
  <2>2. \A g \in Fds : Still(g)
    BY <1>1, <1>2, <1>8, StillRemoved DEF rm_fd
  <2>3. ~ Pumps(reg', fd) /\ pool' = ForgetFd(q, fd)
    BY <1>1, <1>8, RemovedRemains DEF Pumps, rm_fd
  <2> QED
    BY <1>1, <1>2, <1>3, <1>8, <2>1, <2>2, <2>3, WriterPumps DEF fd, p, q
<1> QED
  BY <1>4, <1>6, <1>7, <1>8

LEMMA UdpWritePumps == ASSUME IInv, Lively, UdpWrite PROVE Lively'
<1> DEFINE fd == Top.fd
           p  == get_write_buffer(pool, fd)
           q  == mv_buffer_wtof(p, fd)
<1>1. /\ stack # <<>> /\ fate = "run" /\ fd \in Fds
      /\ IsRegistered(reg, fd) /\ reg.info[fd].cat = "udp-write"
  BY NamesAre, RunningIs DEF UdpWrite
<1>2. batch' = batch /\ reg' = reg /\ Sound(pool) /\ kern \in Kernels
  BY IInvIs DEF UdpWrite, WriteVars
<1>3. Sound(p) /\ Sound(q)
  BY <1>1, <1>2, GetWrite, WriteToFree
<1>4. \/ kern' = kern /\ p.used[fd] = NoBuffer /\ pool' = p /\ Answer(1)
      \/ kern' = kern /\ p.used[fd] # NoBuffer /\ notify_read(q)
      \/ kern' = FillUp(UdpSock) /\ pool' = p /\ Answer(1)
      \/ kern' = kern /\ p.used[fd] # NoBuffer /\ pool' = q /\ Answer(0)
  BY DEF UdpWrite
<1>5. kern.sock[fd] = UdpSock
  BY <1>1 DEF Lively, Hooked, Pumps, Writers
<1> HIDE DEF fd, p, q
<1>6. kern' = kern \/ kern' = FillUp(UdpSock)
  BY <1>4
<1>7. kern'.sock = kern.sock /\ (kern' = FillUp(UdpSock) => Stirred(kern', fd))
  BY <1>2, <1>5, <1>6, FilesAre, Filling, FilledUpStirs
<1>8. Called /\ \A g \in Fds : Still(g)
  BY <1>1, <1>2, <1>6, <1>7, StillCalled, StillSame
<1> QED
  BY <1>1, <1>2, <1>3, <1>4, <1>7, <1>8, WriterPumps DEF fd, p, q

(* dup2 and lightning stay below the call of the writer they send to.       *)
LEMMA LinkDue ==
  ASSUME Called, NEW f \in Frame, f.zero = Top.zero, NEW g \in Frame,
         stack' = <<g>> \o (<<f>> \o Tail(stack)), current' = current, accepting' = accepting,
         NEW fd, Due(stack, current, accepting, fd), ~ Calls(stack, fd)
  PROVE  Due(stack', current', accepting', fd)
<1> DEFINE t == <<f>> \o Tail(stack)
<1>1. stack \in Seq(Frame) /\ stack # <<>> /\ Tail(stack) \in Seq(Frame)
  BY CalledIs DEF Called, Waiting
<1>2. t \in Seq(Frame) /\ t # <<>>
  BY <1>1, PushedIs
<1>3. t[Len(t)].zero
  <2>1. CASE Len(stack) = 1
    <3>1. Tail(stack) = <<>> /\ Top = stack[Len(stack)]
      BY <1>1, <2>1, BottomIs DEF Top
    <3>2. Top.zero
      BY <3>1 DEF Due
    <3> QED
      BY <1>1, <3>1, <3>2, PushedBottom
  <2>2. CASE Len(stack) # 1
    <3>1. Tail(stack) # <<>> /\ Tail(stack)[Len(Tail(stack))] = stack[Len(stack)]
      BY <1>1, <2>2, BottomIs
    <3>2. stack[Len(stack)].zero
      BY <2>2 DEF Due
    <3> QED
      BY <1>1, <3>1, <3>2, PushedBottom
  <2> QED
    BY <2>1, <2>2
<1>4. stack' = <<g>> \o t
  OBVIOUS
<1> HIDE DEF t
<1>5. stack' # <<>> /\ stack'[Len(stack')] = t[Len(t)]
  BY <1>2, <1>4, PushedBottom
<1> QED
  BY <1>3, <1>5 DEF Due

LEMMA LinkPumps ==
  ASSUME IInv, Lively, Called, reg' = reg, kern' = kern, batch' = batch,
         current' = current, accepting' = accepting,
         Top.pc \in Loops, pool.free # <<>>, NEW to \in Fds, Writes(reg, to),
         pool' = dup_buffer_tow(pool, Top.bp, to),
         NEW f \in Frame, f.zero = Top.zero,
         stack' = <<Callback(reg, to, FALSE)>> \o (<<f>> \o Tail(stack))
  PROVE  Lively'
<1> DEFINE c == Callback(reg, to, FALSE)
<1>1. fate = "run" /\ Wired(reg, kern) /\ Sound(pool) /\ kern \in Kernels
      /\ Tail(stack) \in Seq(Frame)
  BY IInvIs, CalledIs DEF Called, Waiting
<1>2. c \in Frame /\ c.pc = "tcp-write" /\ c.fd = to
  BY <1>1, CallbackRuns DEF Writes, Callback
<1>3. stack' = <<c>> \o (<<f>> \o Tail(stack))
  OBVIOUS
<1> HIDE DEF c
<1>4. Calls(stack', to)
  <2> DEFINE t == <<f>> \o Tail(stack)
  <2>1. t \in Seq(Frame) /\ stack' = <<c>> \o t
    BY <1>1, <1>3, PushedIs
  <2> HIDE DEF t
  <2>2. <<c>> \o t # <<>> /\ Head(<<c>> \o t) = c
    BY <2>1, PushedBottom, Zenon
  <2>3. c.fd = to /\ c.pc \in Writers
    BY <1>2 DEF Writers
  <2> QED
    BY <2>1, <2>2, <2>3, Zenon DEF Calls
<1>5. /\ \A g \in Fds \ {to} : NoMore(pool, pool', g)
      /\ pool'.used = pool.used
      /\ pool.writeWaiting[to] = <<>> => Len(pool'.writeWaiting[to]) = 1
  BY <1>1, DupToWriteLeaves
<1>6. \A g \in Fds : Fed(pool, g)
  <2>1. Fed(pool, to)
    BY <1>4, <1>5 DEF Fed, Idle, One
  <2> QED
    BY <1>5, <2>1, NoMoreFed
<1>7. \A g : ~ Calls(stack, g)
  BY NamesAre DEF Calls, Top, Loops, Writers
<1>8. \A g \in Fds : Still(g)
  BY <1>1, StillSame
<1>9. \A g : Due(stack, current, accepting, g) => Due(stack', current', accepting', g)
  BY <1>2, <1>3, <1>7, LinkDue
<1> QED
  BY <1>1, <1>6, <1>7, <1>8, <1>9, LivelyOn

LEMMA CrashPumps ==
  ASSUME Lively, fate' # "run", reg' = reg, kern' = kern
  PROVE  Lively'
  BY DEF Lively

LEMMA Dup2LinkPumps == ASSUME IInv, Lively, Dup2Link PROVE Lively'
<1> DEFINE to == reg.list["tcp-write"][Top.i]
           f  == [Top EXCEPT !.i = Top.i + 1]
<1>1. /\ stack # <<>> /\ fate = "run" /\ Top.pc = "dup2" /\ Top \in Frame
      /\ Waits(Top) /\ Top.bp \in Buffers
  BY LoopRunningIs DEF Dup2Link, Loops
<1>2. /\ reg' = reg /\ kern' = kern /\ batch' = batch /\ current' = current
      /\ accepting' = accepting
  BY DEF Dup2Link
<1>3. Wired(reg, kern)
  BY IInvIs
<1>4. Called
  BY <1>1, <1>2, StillCalled
<1>5. CASE pool.free = <<>>
  <2>1. fate' # "run"
    BY <1>5 DEF Dup2Link
  <2> QED
    BY <1>2, <2>1, CrashPumps
<1>6. CASE pool.free # <<>>
  <2>1. /\ pool' = dup_buffer_tow(pool, Top.bp, to)
        /\ stack' = <<Callback(reg, to, FALSE), f>> \o Tail(stack)
        /\ Top.i <= Len(reg.list["tcp-write"])
    BY <1>6 DEF Dup2Link
  <2>2. Top.i \in Nat /\ Top.i > 0
    BY <1>1 DEF Waits, Frame
  <2>3. Top.i \in 1 .. Len(reg.list["tcp-write"])
    <3>1. reg.list["tcp-write"] \in Seq(Fds)
      BY <1>3, NamesAre, WiredIs
    <3> QED
      BY <2>1, <2>2, <3>1
  <2>4. to \in Fds /\ IsRegistered(reg, to) /\ reg.info[to].cat = "tcp-write"
    BY <1>3, <2>3, NamesAre, Leads
  <2>5. f \in Frame /\ f.zero = Top.zero
    BY <1>1, <2>2 DEF Frame
  <2>6. stack' = <<Callback(reg, to, FALSE)>> \o (<<f>> \o Tail(stack))
    <3> DEFINE g == Callback(reg, to, FALSE)
    <3>1. g \in Frame
      BY <1>3, <2>4, CallbackRuns
    <3>2. Tail(stack) \in Seq(Frame)
      BY <1>4, CalledIs DEF Waiting
    <3> HIDE DEF g, f, to
    <3>3. <<g, f>> \o Tail(stack) = <<g>> \o (<<f>> \o Tail(stack))
      BY <2>5, <3>1, <3>2, TwoPushed
    <3> QED
      BY <2>1, <3>3 DEF g
  <2>7. Writes(reg, to) /\ Top.pc \in Loops
    BY <1>1, <2>4 DEF Writes, Loops
  <2> HIDE DEF f, to
  <2> QED
    BY <1>2, <1>4, <1>6, <2>1, <2>4, <2>5, <2>6, <2>7, LinkPumps
<1> QED
  BY <1>5, <1>6

LEMMA LightningSendPumps == ASSUME IInv, Lively, LightningSend PROVE Lively'
<1> DEFINE to == FromUrl(reg, <<"tcp-write", Head(Top.links)>>)
           f  == [Top EXCEPT !.links = Tail(Top.links)]
<1>1. /\ stack # <<>> /\ fate = "run" /\ Top.pc = "lightning" /\ Top \in Frame
      /\ Waits(Top) /\ Top.bp \in Buffers
  BY LoopRunningIs DEF LightningSend, Loops
<1>2. /\ reg' = reg /\ kern' = kern /\ batch' = batch /\ current' = current
      /\ accepting' = accepting
  BY DEF LightningSend
<1>3. Wired(reg, kern) /\ kern \in Kernels
  BY IInvIs
<1>4. Called
  BY <1>1, <1>2, StillCalled
<1>5. Top.links \in Seq(Ports) /\ Top.links # <<>>
  BY <1>1 DEF Frame, LightningSend
<1>6. Head(Top.links) \in Ports /\ Tail(Top.links) \in Seq(Ports)
  BY <1>5
<1>7. f \in Frame /\ f.zero = Top.zero
  BY <1>1, <1>6 DEF Frame
<1>8. \/ to = NoFd /\ stack' = <<f>> \o Tail(stack) /\ UNCHANGED <<pool, fate>>
      \/ to # NoFd /\ pool.free = <<>> /\ fate' = "crash" /\ UNCHANGED <<pool, stack>>
      \/ /\ to # NoFd /\ pool.free # <<>> /\ pool' = dup_buffer_tow(pool, Top.bp, to)
         /\ stack' = <<Callback(reg, to, FALSE)>> \o (<<f>> \o Tail(stack))
  BY DEF LightningSend
<1>9. to # NoFd => to \in Fds /\ Writes(reg, to)
  <2>1. <<"tcp-write", Head(Top.links)>> \in Urls
    BY <1>6, NamesAre, NumbersAre
  <2> QED
    BY <1>3, <2>1, Leads DEF Writes
<1>10. Top.pc \in Loops /\ \A g : ~ Calls(stack, g)
  BY <1>1 DEF Loops, Calls, Top, Writers
<1> HIDE DEF to, f
<1>11. CASE to = NoFd /\ stack' = <<f>> \o Tail(stack) /\ UNCHANGED <<pool, fate>>
  <2>1. \A g \in Fds : Still(g) /\ Fed(pool, g)
    BY <1>2, <1>3, <1>11, StillSame, NoMoreSame, NoMoreFed
  <2>2. TailCall(f)
    BY <1>2, <1>11 DEF TailCall
  <2>3. \A g : Due(stack, current, accepting, g) => Due(stack', current', accepting', g)
    BY <1>4, <1>7, <1>10, <2>2, CallDue
  <2> QED
    BY <1>1, <1>10, <2>1, <2>3, LivelyOn
<1>12. CASE to # NoFd /\ pool.free = <<>> /\ fate' = "crash" /\ UNCHANGED <<pool, stack>>
  BY <1>2, <1>12, CrashPumps
<1>13. CASE /\ to # NoFd /\ pool.free # <<>> /\ pool' = dup_buffer_tow(pool, Top.bp, to)
            /\ stack' = <<Callback(reg, to, FALSE)>> \o (<<f>> \o Tail(stack))
  BY <1>2, <1>4, <1>7, <1>9, <1>10, <1>13, LinkPumps
<1> QED
  BY <1>8, <1>11, <1>12, <1>13

(* A call that is not a writer's answers, and gives nobody a packet.        *)
LEMMA AnswerPumps ==
  ASSUME IInv, Lively, stack # <<>>, fate = "run", Top.pc \notin Writers,
         reg' = reg, kern' = kern, batch' = batch,
         \A g \in Fds : NoMore(pool, pool', g), NEW v, Answer(v)
  PROVE  Lively'
<1>1. Called /\ kern \in Kernels
  BY StillCalled, IInvIs
<1>2. \A g \in Fds : Still(g) /\ Fed(pool, g)
  BY <1>1, StillSame, NoMoreFed
<1>3. \A g : ~ Calls(stack, g)
  BY DEF Calls, Top
<1> QED
  BY <1>1, <1>2, <1>3, AnswerDue, LivelyOn

LEMMA DonePumps == ASSUME IInv, Lively, Dup2Done \/ LightningDone PROVE Lively'
<1>1. stack # <<>> /\ fate = "run" /\ Top.fd \in Fds /\ Top.pc \in Loops
  BY LoopRunningIs DEF Dup2Done, LightningDone, Loops
<1>2. /\ reg' = reg /\ kern' = kern /\ batch' = batch
      /\ pool' = mv_buffer_rtof(pool, Top.fd) /\ Answer(0)
  BY DEF Dup2Done, LightningDone
<1>3. \A g \in Fds : NoMore(pool, pool', g)
  BY <1>1, <1>2, IInvIs, ReadToFreeLeaves
<1>4. Top.pc \notin Writers
  BY <1>1 DEF Loops, Writers
<1> QED
  BY <1>1, <1>2, <1>3, <1>4, AnswerPumps

LEMMA TcpCoNonePumps == ASSUME IInv, Lively, TcpCoNone PROVE Lively'
<1>1. stack # <<>> /\ fate = "run" /\ Top.pc = "tcp-listen"
  BY NamesAre, RunningIs DEF TcpCoNone
<1>2. reg' = reg /\ kern' = kern /\ batch' = batch /\ pool' = pool /\ Answer(1)
  BY DEF TcpCoNone
<1> QED
  BY <1>1, <1>2, NoMoreSame, AnswerPumps DEF Writers

LEMMA WatchStirs ==
  ASSUME NEW k \in Kernels, NEW w, NEW a, NEW b, NEW t, t = Watch(k, w, a, b)
  PROVE  /\ \A fd : Stirred(k, fd) => Stirred(t, fd)
         /\ t.sock = k.sock /\ k.watch \subseteq t.watch /\ w \in t.watch
         /\ t.full = k.full /\ (a => w \in t.ready)
<1> DEFINE x == k.watch \cup {w}
           y == IF a THEN k.ready \cup {w} ELSE k.ready
           z == IF b THEN k.hup \cup {w} ELSE k.hup
<1>1. t = [k EXCEPT !.watch = x, !.ready = y, !.hup = z]
  BY DEF Watch
<1>2. k.watch \subseteq x /\ w \in x /\ k.ready \subseteq y /\ k.hup \subseteq z /\ (a => w \in y)
  OBVIOUS
<1> HIDE DEF x, y, z
<1>3. /\ t.sock = k.sock /\ t.watch = x /\ t.ready = y /\ t.hup = z /\ t.full = k.full
  BY <1>1 DEF Kernels
<1> QED
  BY <1>2, <1>3 DEF Stirred

LEMMA AcceptedStirs ==
  ASSUME NEW k \in Kernels, NEW r, NEW w, NEW p, NEW t, t = Accepted(k, r, w, p), NEW fd,
         t.sock[fd] = k.sock[fd]
  PROVE  (Stirred(k, fd) => Stirred(t, fd)) /\ t.watch = k.watch
<1> DEFINE x == [k.sock EXCEPT ![r] = Head(k.backlog[p]), ![w] = Head(k.backlog[p])]
           y == [k.backlog EXCEPT ![p] = Tail(@)]
<1>1. t = [k EXCEPT !.sock = x, !.backlog = y]
  BY DEF Accepted, Kernels
<1> HIDE DEF x, y
<1>2. t.watch = k.watch /\ t.ready = k.ready /\ t.hup = k.hup /\ t.full = k.full
  BY <1>1 DEF Kernels
<1> QED
  BY <1>2 DEF Stirred

LEMMA TcpCoPumps == ASSUME IInv, Lively, TcpCo PROVE Lively'
<1> DEFINE p == Top.fd - 2
           c == Head(kern.backlog[p])
<1>1. /\ stack # <<>> /\ fate = "run" /\ Top.fd \in Fds /\ Top.pc = "tcp-listen"
      /\ current = Top.fd /\ reg.info[Top.fd].cat = "tcp-listen" /\ IsRegistered(reg, Top.fd)
  BY NamesAre, RunningIs DEF TcpCo
<1>2. kern \in Kernels /\ Wired(reg, kern) /\ Sound(pool) /\ batch' = batch
  BY IInvIs DEF TcpCo
<1>3. p \in Ports /\ p \in 0 .. NPorts
  BY <1>1, <1>2, WiredIs, NumbersAre
<1>4. PICK r \in Closed(kern), w \in Closed(kern), inherit \in BOOLEAN :
        /\ reg' = AddFd(reg, r, "tcp-read", <<"tcp-read", p>>)
        /\ kern' = Watch([kern EXCEPT !.sock[r] = c, !.sock[w] = c, !.backlog[p] = Tail(@)],
                         <<c, r, "in">>, kern.rx[c] > 0, Broken(c))
        /\ pool' = AdoptFd(pool, r, inherit)
  BY DEF TcpCo
<1>5. kern.backlog[p] # <<>>
  BY DEF TcpCo
<1>6. r \in Fds /\ kern.sock[r] = NoSock
  BY <1>4 DEF Closed
<1>7. ~ IsRegistered(reg, r)
  BY <1>2, <1>6, WiredIs
<1> DEFINE k == Accepted(kern, r, w, p)
           ready  == kern.rx[c] > 0
           broken == Broken(c)
<1>8. kern' = Watch(k, <<c, r, "in">>, ready, broken)
  BY <1>4 DEF Accepted
<1> HIDE DEF ready, broken, p
<1>9. k \in Kernels /\ \A g \in Fds : kern.sock[g] # NoSock => k.sock[g] = kern.sock[g]
  BY <1>2, <1>3, <1>4, <1>5, Accepting
<1>10. \A g \in Fds : kern.sock[g] # NoSock =>
         (Stirred(kern, g) => Stirred(k, g)) /\ k.watch = kern.watch
  BY <1>2, <1>9, AcceptedStirs
<1> HIDE DEF k, c
<1>11. (\A g : Stirred(k, g) => Stirred(kern', g)) /\ kern'.sock = k.sock
       /\ k.watch \subseteq kern'.watch
  BY <1>8, <1>9, WatchStirs
<1>12. reg'.info[r].cat = "tcp-read" /\ SameBut(reg, reg', r) /\ reg'.black = reg.black
  BY <1>2, <1>3, <1>4, <1>6, <1>7, NamesAre, AddedIs
<1>13. ASSUME NEW g \in Fds, Pumps(reg', g)
       PROVE  /\ Pumps(reg, g) /\ reg'.info[g] = reg.info[g] /\ g # current
              /\ kern.sock[g] # NoSock
  <2>1. g # r
    BY <1>12, <1>13 DEF Pumps, Writers
  <2>2. Pumps(reg, g) /\ reg'.info[g] = reg.info[g]
    BY <1>12, <1>13, <2>1 DEF Pumps, SameBut
  <2> QED
    BY <1>1, <1>2, <2>2, WiredIs DEF Pumps, Writers
<1>14. ASSUME NEW g \in Fds PROVE Still(g)
  <2> SUFFICES ASSUME Pumps(reg', g) PROVE Still(g)
    BY DEF Still, Hangs
  <2>1. kern'.sock[g] = kern.sock[g] /\ (Stirred(kern, g) => Stirred(kern', g))
        /\ kern.watch \subseteq kern'.watch
    BY <1>9, <1>10, <1>11, <1>13
  <2>2. Announced(batch, reg, g) => Announced(batch', reg', g)
    BY <1>2, <1>12 DEF Announced, IsBlacklisted
  <2> QED
    BY <1>13, <2>1, <2>2 DEF Still, Hangs, Woken
<1>15. \A g \in Fds : Fed(pool, g)
  BY <1>2, <1>4, <1>6, AdoptedLeaves, NoMoreFed
<1>16. \A g : ~ Calls(stack, g)
  BY <1>1 DEF Calls, Top, Writers
<1>17. \A g \in Fds : Pumps(reg', g) => ~ Due(stack, current, accepting, g)
  BY <1>13 DEF Due
<1> QED
  BY <1>1, <1>14, <1>15, <1>16, <1>17, LivelyOn

LEMMA TcpCoWriterPumps == ASSUME IInv, Lively, TcpCoWriter PROVE Lively'
<1>a. PICK w : w = accepting
  OBVIOUS
<1> DEFINE c == kern.sock[w]
           p == current - 2
<1>1. fate = "run" /\ stack = <<>> /\ w # NoFd
  BY <1>a DEF TcpCoWriter
<1>2. kern \in Kernels /\ Wired(reg, kern) /\ Sound(pool) /\ batch' = batch
  BY IInvIs DEF TcpCoWriter
<1>3. w \in Fds /\ ~ IsRegistered(reg, w) /\ current \in Listeners
  BY <1>a, <1>1, IInvIs DEF Adding
<1>4. p \in 0 .. NPorts
  BY <1>3, NumbersAre
<1>5. PICK inherit \in BOOLEAN :
        /\ reg' = AddFd(reg, w, "tcp-write", <<"tcp-write", p>>)
        /\ kern' = Watch(kern, <<c, w, "out">>, c \notin kern.full, Broken(c))
        /\ pool' = AdoptFd(pool, w, inherit)
  BY <1>a DEF TcpCoWriter
<1> DEFINE ready  == c \notin kern.full
           broken == Broken(c)
           x == <<c, w, "out">>
<1>6. kern' = Watch(kern, x, ready, broken)
  BY <1>5
<1> HIDE DEF p, x, broken
<1>7. /\ \A g : Stirred(kern, g) => Stirred(kern', g)
      /\ kern'.sock = kern.sock /\ kern.watch \subseteq kern'.watch /\ x \in kern'.watch
      /\ kern'.full = kern.full /\ (ready => x \in kern'.ready)
  <2> HIDE DEF ready
  <2> QED
    BY <1>2, <1>6, WatchStirs
<1>8. IsRegistered(reg', w) /\ reg'.info[w].cat = "tcp-write" /\ SameBut(reg, reg', w)
      /\ reg'.black = reg.black
  BY <1>2, <1>3, <1>4, <1>5, NamesAre, AddedIs
<1>9. ASSUME NEW g \in Fds, g # w, Pumps(reg', g)
      PROVE  Pumps(reg, g) /\ reg'.info[g] = reg.info[g]
  BY <1>8, <1>9 DEF Pumps, SameBut
<1>10. Hooked(reg', kern')
  BY <1>7, <1>8, <1>9 DEF Lively, Hooked, x
<1>11. Pumped(w)'
  BY <1>7 DEF Pumped, Woken, Stirred, x
<1>12. ASSUME NEW g \in Fds, g # w, Pumps(reg', g) PROVE Pumped(g)'
  <2>1. NoMore(pool, pool', g)
    BY <1>2, <1>3, <1>5, AdoptedLeaves
  <2>2. Idle(pool, g) => Idle(pool', g)
    BY <2>1 DEF NoMore, Idle
  <2>3. Announced(batch, reg, g) => Announced(batch', reg', g)
    BY <1>2, <1>8 DEF Announced, IsBlacklisted
  <2>4. Pumped(g)
    BY <1>1, <1>9, <1>12 DEF Lively
  <2> QED
    BY <1>1, <1>7, <2>2, <2>3, <2>4 DEF Pumped, Woken, Calls, Due
<1> QED
  BY <1>10, <1>11, <1>12 DEF Lively

(* epoll_wait hands over what it takes.                                    *)
LEMMA PollPumps == ASSUME IInv, Lively, Poll PROVE Lively'
<1>1. stack = <<>> /\ fate = "run"
  BY AtLoopIs DEF Poll
<1>2. pool' = pool /\ reg' = ClearBlacklist(reg) /\ batch = EmptyBatch
  BY DEF Poll
<1>3. kern \in Kernels /\ reg \in Registry
  BY IInvIs, WiredIs
<1>4. PICK ws : batch' = BatchOf(kern, ws) /\ kern' = Reported(kern, ws)
  BY DEF Poll
<1>5. reg'.info = reg.info /\ reg'.black = <<>>
  BY <1>2, <1>3 DEF ClearBlacklist, Registry
<1>6. \A g : ~ IsBlacklisted(reg', g)
  BY <1>5 DEF IsBlacklisted
<1>7. /\ kern'.sock = kern.sock /\ kern'.watch = kern.watch /\ kern'.full = kern.full
      /\ kern'.ready = kern.ready \ ws /\ kern'.hup = kern.hup \ ws
  BY <1>3, <1>4 DEF Reported, Kernels
<1>8. \A w \in ws : \E e \in batch'.err \cup batch'.cb : e.fd = w[2]
  <2> SUFFICES ASSUME NEW w \in ws PROVE \E e \in batch'.err \cup batch'.cb : e.fd = w[2]
    OBVIOUS
  <2>1. Event(kern, w) \in batch'.err \cup batch'.cb
    BY <1>4 DEF BatchOf
  <2>2. Event(kern, w).fd = w[2]
    BY DEF Event
  <2> QED
    BY <2>1, <2>2
<1>9. ASSUME NEW g \in Fds PROVE Still(g)
  <2>1. ~ Announced(batch, reg, g)
    BY <1>2 DEF Announced, EmptyBatch
  <2>2. ASSUME Stirred(kern, g) PROVE Woken(kern', batch', reg', g)
    <3>1. CASE kern.sock[g] \in kern.full
      BY <1>7, <3>1 DEF Woken, Stirred
    <3>2. CASE <<kern.sock[g], g, "out">> \in kern.ready
      <4> DEFINE w == <<kern.sock[g], g, "out">>
      <4>1. w[2] = g
        OBVIOUS
      <4>2. CASE w \in ws
        BY <1>6, <1>8, <4>1, <4>2 DEF Woken, Announced
      <4>3. CASE w \notin ws
        BY <1>7, <3>2, <4>3 DEF Woken, Stirred
      <4> QED
        BY <4>2, <4>3
    <3>3. CASE \E w \in kern.hup : w[1] = kern.sock[g] /\ w[2] = g
      <4>1. PICK w \in kern.hup : w[1] = kern.sock[g] /\ w[2] = g
        BY <3>3
      <4>2. CASE w \in ws
        BY <1>6, <1>8, <4>1, <4>2 DEF Woken, Announced
      <4>3. CASE w \notin ws
        BY <1>7, <4>1, <4>3 DEF Woken, Stirred
      <4> QED
        BY <4>2, <4>3
    <3> QED
      BY <2>2, <3>1, <3>2, <3>3 DEF Stirred
  <2> QED
    BY <1>5, <1>7, <2>1, <2>2 DEF Still, Hangs, Pumps, IsRegistered, Woken
<1>10. \A g \in Fds : Fed(pool, g)
  BY <1>2, NoMoreSame, NoMoreFed
<1> QED
  BY <1>1, <1>9, <1>10, LivelyOn DEF Calls, Due

(* An event is handled, and the loop calls the callback of its descriptor   *)
(* unless it ignores the event.                                            *)
LEMMA HandleEventPumps == ASSUME IInv, Lively, HandleEvent PROVE Lively'
<1>1. stack = <<>> /\ fate = "run" /\ accepting = NoFd
  BY AtLoopIs DEF HandleEvent
<1>2. pool' = pool /\ reg' = reg /\ kern' = kern /\ accepting' = accepting
  BY DEF HandleEvent
<1>3. PICK e \in batch.cb :
        /\ batch' = [batch EXCEPT !.cb = @ \ {e}]
        /\ IF Ignored(reg, e.fd) THEN UNCHANGED <<stack, current>>
           ELSE stack' = <<Callback(reg, e.fd, FALSE)>> /\ current' = e.fd
  BY DEF HandleEvent
<1>4. batch'.err = batch.err /\ batch'.cb = batch.cb \ {e}
  BY <1>3, IInvIs
<1>5. \A g \in Fds : Hangs(g)
  BY <1>2 DEF Hangs
<1>6. ASSUME NEW g \in Fds, Pumps(reg', g) PROVE Pumped(g)'
  <2>1. Pumps(reg, g)
    BY <1>2, <1>6
  <2>2. Idle(pool, g) \/ Stirred(kern, g) \/ Announced(batch, reg, g)
    BY <1>1, <2>1 DEF Lively, Pumped, Calls, Due, Woken
  <2>3. CASE Idle(pool, g) \/ Stirred(kern, g)
    BY <1>2, <2>3 DEF Pumped, Woken
  <2>4. CASE Announced(batch, reg, g)
    <3>1. PICK x \in batch.err \cup batch.cb : x.fd = g
      BY <2>4 DEF Announced
    <3>2. CASE x # e
      <4>1. x \in batch'.err \cup batch'.cb
        BY <1>4, <3>1, <3>2
      <4> QED
        BY <1>2, <2>4, <3>1, <4>1 DEF Pumped, Woken, Announced
    <3>3. CASE x = e
      <4> DEFINE f == Callback(reg, g, FALSE)
      <4>1. ~ Ignored(reg, g)
        BY <2>1, <2>4 DEF Ignored, Announced, Pumps
      <4>2. stack' = <<f>> /\ current' = g
        BY <1>3, <3>1, <3>3, <4>1
      <4>3. f.fd = g /\ f.pc \in Writers
        BY <2>1 DEF Callback, Pumps
      <4> HIDE DEF f
      <4>4. stack' # <<>> /\ Len(stack') = 1 /\ Head(stack') = f
        BY <4>2
      <4> QED
        BY <1>1, <1>2, <4>2, <4>3, <4>4 DEF Pumped, Due, Calls
    <3> QED
      BY <3>2, <3>3
  <2> QED
    BY <2>2, <2>3, <2>4
<1> QED
  BY <1>5, <1>6, LivelyAgain

(* An error of a writer releases its packets.                              *)
LEMMA HandleErrorPumps == ASSUME IInv, Lively, HandleError PROVE Lively'
<1>1. stack = <<>> /\ fate = "run" /\ Sound(pool) /\ kern \in Kernels /\ Wired(reg, kern)
  BY AtLoopIs, IInvIs DEF HandleError
<1>2. stack' = stack
  BY DEF HandleError
<1>3. PICK e \in batch.err :
        /\ batch' = [batch EXCEPT !.err = @ \ {e}]
        /\ IF Ignored(reg, e.fd) THEN UNCHANGED <<pool, reg, kern>>
           ELSE LET p == ReleaseAll(pool, e.fd)
                    r == Repaired(e.fd)
                IN  IF reg.info[e.fd].cat \in {"udp-read", "udp-write"} \/ r = <<>>
                    THEN pool' = p /\ UNCHANGED <<reg, kern>>
                    ELSE IF Len(r) = 1 THEN rm_fd(p, r[1])
                    ELSE /\ reg' = RmFd(RmFd(reg, r[1]), r[2])
                         /\ kern' = Close(Close(kern, r[1]), r[2])
                         /\ pool' = ForgetFd(ForgetFd(p, r[1]), r[2])
  BY DEF HandleError
<1>4. e.fd \in Fds /\ batch'.err = batch.err \ {e} /\ batch'.cb = batch.cb
  <2>1. batch \in [err : SUBSET Events, cb : SUBSET Events]
    BY IInvIs
  <2> QED
    BY <1>3, <2>1 DEF Events
<1>5. ASSUME NEW g \in Fds, Announced(batch, reg, g), g # e.fd
      PROVE  Announced(batch', reg, g)
  <2>1. PICK x \in batch.err \cup batch.cb : x.fd = g
    BY <1>5 DEF Announced
  <2>2. x # e /\ x \in batch'.err \cup batch'.cb
    BY <1>4, <1>5, <2>1
  <2> QED
    BY <1>5, <2>1, <2>2 DEF Announced
<1>6. ASSUME \A g \in Fds : Carries(reg, kern, batch', reg', kern', g),
             \A g \in Fds : Idle(pool, g) => Idle(pool', g),
             Announced(batch, reg, e.fd) /\ Pumps(reg, e.fd) => Idle(pool', e.fd)
      PROVE  Lively'
  <2>1. \A g \in Fds : Hangs(g)
    BY <1>6 DEF Carries, Hangs
  <2>2. ASSUME NEW g \in Fds, Pumps(reg', g) PROVE Pumped(g)'
    <3>1. Pumps(reg, g)
      BY <1>6, <2>2 DEF Carries
    <3>2. Idle(pool, g) \/ Stirred(kern, g) \/ Announced(batch, reg, g)
      BY <1>1, <3>1 DEF Lively, Pumped, Calls, Due, Woken
    <3>3. CASE Idle(pool, g)
      BY <1>6, <3>3 DEF Pumped
    <3>4. CASE Stirred(kern, g)
      BY <1>6, <2>2, <3>4 DEF Pumped, Carries, Woken
    <3>5. CASE Announced(batch, reg, g) /\ g = e.fd
      BY <1>6, <3>1, <3>5 DEF Pumped
    <3>6. CASE Announced(batch, reg, g) /\ g # e.fd
      BY <1>5, <1>6, <2>2, <3>6 DEF Pumped, Carries, Woken
    <3> QED
      BY <3>2, <3>3, <3>4, <3>5, <3>6
  <2> QED
    BY <2>1, <2>2, LivelyAgain
<1>7. CASE Ignored(reg, e.fd)
  <2>1. pool' = pool /\ reg' = reg /\ kern' = kern
    BY <1>3, <1>7
  <2>2. ~ (Announced(batch, reg, e.fd) /\ Pumps(reg, e.fd))
    BY <1>7 DEF Ignored, Announced, Pumps
  <2>3. \A g \in Fds : Carries(reg, kern, batch', reg', kern', g)
    BY <2>1 DEF Carries
  <2> QED
    BY <1>6, <2>1, <2>2, <2>3
<1>8. CASE ~ Ignored(reg, e.fd)
  <2> DEFINE p == ReleaseAll(pool, e.fd)
             r == Repaired(e.fd)
  <2>1. IsRegistered(reg, e.fd)
    BY <1>8 DEF Ignored
  <2>2. Sound(p) /\ Idle(p, e.fd) /\ \A g \in Fds : NoMore(pool, p, g)
    BY <1>1, <1>4, Released, ReleasedLeaves DEF Idle
  <2>3. \/ pool' = p /\ reg' = reg /\ kern' = kern
        \/ r # <<>> /\ Len(r) = 1 /\ rm_fd(p, r[1])
        \/ /\ r # <<>> /\ Len(r) # 1
           /\ reg' = RmFd(RmFd(reg, r[1]), r[2])
           /\ kern' = Close(Close(kern, r[1]), r[2])
           /\ pool' = ForgetFd(ForgetFd(p, r[1]), r[2])
    BY <1>3, <1>8
  <2>4. LET Of(g, c) == g \in Fds /\ IsRegistered(reg, g) /\ reg.info[g].cat = c
        IN  \/ r = <<>>
            \/ Len(r) = 1 /\ (Of(r[1], "tcp-read") \/ Of(r[1], "tcp-write"))
            \/ Len(r) = 2 /\ Of(r[1], "tcp-read") /\ Of(r[2], "tcp-write")
    BY <1>4, <2>1, RepairedIs
  <2> HIDE DEF p, r
  <2>5. ASSUME \A g \in Fds : NoMore(p, pool', g), pool'.used = p.used,
               pool'.writeWaiting = p.writeWaiting,
               \A g \in Fds : Carries(reg, kern, batch', reg', kern', g)
        PROVE  Lively'
    <3>1. \A g \in Fds : Idle(p, g) => Idle(pool', g)
      BY <2>5 DEF Idle
    <3>2. \A g \in Fds : Idle(pool, g) => Idle(p, g)
      BY <2>2 DEF NoMore, Idle
    <3> QED
      BY <1>4, <1>6, <2>2, <2>5, <3>1, <3>2
  <2>6. CASE pool' = p /\ reg' = reg /\ kern' = kern
    BY <2>5, <2>6, NoMoreSame DEF Carries
  <2>7. CASE r # <<>> /\ Len(r) = 1 /\ rm_fd(p, r[1])
    <3>1. r[1] \in Fds /\ IsRegistered(reg, r[1])
      BY <2>4, <2>7
    <3>2. reg' = RmFd(reg, r[1]) /\ kern' = Close(kern, r[1]) /\ pool' = ForgetFd(p, r[1])
      BY <2>7 DEF rm_fd
    <3>3. \A g \in Fds : Carries(reg, kern, batch', reg', kern', g)
      BY <1>1, <3>1, <3>2, WiredIs, RemovedCarries
    <3>4. /\ \A g \in Fds : NoMore(p, pool', g)
          /\ pool'.used = p.used /\ pool'.writeWaiting = p.writeWaiting
      BY <2>2, <3>2, WaiterLeaves
    <3> QED
      BY <2>5, <3>3, <3>4
  <2>8. CASE /\ r # <<>> /\ Len(r) # 1
             /\ reg' = RmFd(RmFd(reg, r[1]), r[2])
             /\ kern' = Close(Close(kern, r[1]), r[2])
             /\ pool' = ForgetFd(ForgetFd(p, r[1]), r[2])
    <3> DEFINE g == r[1]
               h == r[2]
               m == RmFd(reg, g)
               l == Close(kern, g)
               q == ForgetFd(p, g)
    <3>1. /\ g \in Fds /\ IsRegistered(reg, g) /\ reg.info[g].cat = "tcp-read"
          /\ h \in Fds /\ IsRegistered(reg, h) /\ reg.info[h].cat = "tcp-write"
      BY <2>4, <2>8
    <3>2. reg' = RmFd(m, h) /\ kern' = Close(l, h) /\ pool' = ForgetFd(q, h)
      BY <2>8
    <3> HIDE DEF g, h
    <3>3. Wired(m, l) /\ SameBut(reg, m, g)
      BY <1>1, <3>1, RmWired
    <3>4. l \in Kernels
      BY <1>1, <3>1, Closing
    <3>5. \A x \in Fds : Carries(reg, kern, batch', m, l, x)
      <4> HIDE DEF m, l
      <4> QED
        BY <1>1, <3>1, WiredIs, RemovedCarries DEF m, l
    <3>6. Sound(q) /\ \A x \in Fds : NoMore(p, q, x)
      BY <2>2, <3>1, Forgotten, WaiterLeaves
    <3>7. q.used = p.used /\ q.writeWaiting = p.writeWaiting
      BY <2>2, WaiterLeaves
    <3> HIDE DEF m, l, q
    <3>8. IsRegistered(m, h)
      BY <3>1, <3>3 DEF SameBut
    <3>9. \A x \in Fds : Carries(m, l, batch', reg', kern', x)
      BY <3>1, <3>2, <3>3, <3>4, <3>8, WiredIs, RemovedCarries
    <3>10. \A x \in Fds : Carries(reg, kern, batch', reg', kern', x)
      BY <3>5, <3>9 DEF Carries
    <3>11. /\ \A x \in Fds : NoMore(q, pool', x)
           /\ pool'.used = q.used /\ pool'.writeWaiting = q.writeWaiting
      BY <3>2, <3>6, WaiterLeaves
    <3>12. \A x \in Fds : NoMore(p, pool', x)
      BY <3>6, <3>11 DEF NoMore
    <3> QED
      BY <2>5, <3>7, <3>10, <3>11, <3>12
  <2> QED
    BY <2>3, <2>6, <2>7, <2>8
<1> QED
  BY <1>7, <1>8

(* The world takes room away from no socket, and reports the room it makes. *)
LEMMA EnvStirs ==
  ASSUME kern \in Kernels, Env, Hooked(reg, kern), NEW fd \in Fds, Pumps(reg, fd)
  PROVE  /\ kern'.sock = kern.sock /\ kern'.watch = kern.watch
         /\ Stirred(kern, fd) => Stirred(kern', fd)
<1>1. CASE Connect \/ Arrive
  <2>1. kern'.sock = kern.sock /\ kern'.watch = kern.watch /\ kern'.full = kern.full
        /\ kern'.hup = kern.hup /\ kern.ready \subseteq kern'.ready
    <3>1. CASE Connect
      BY <3>1 DEF Connect, Kernels
    <3>2. CASE Arrive
      <4>1. PICK s, x, y : kern' = [kern EXCEPT !.rx = x, !.ready = kern.ready \cup y]
        <5>1. PICK s : kern' = [kern EXCEPT !.rx[s] = @ + 1, !.ready = @ \cup Ins(kern, s)]
          BY <3>2 DEF Arrive
        <5> DEFINE x == [kern.rx EXCEPT ![s] = @ + 1]
                   y == Ins(kern, s)
        <5>2. kern' = [kern EXCEPT !.rx = x, !.ready = kern.ready \cup y]
          BY <5>1
        <5> HIDE DEF x, y
        <5> QED
          BY <5>2
      <4> QED
        BY <4>1 DEF Kernels
    <3> QED
      BY <1>1, <3>1, <3>2
  <2> QED
    BY <2>1 DEF Stirred
<1>2. CASE Break \/ UdpError
  <2>1. PICK y : kern' = [kern EXCEPT !.hup = kern.hup \cup y]
                 \/ \E x : kern' = [kern EXCEPT !.link = x, !.hup = kern.hup \cup y]
    <3>1. CASE Break
      <4>1. PICK c : kern' = [kern EXCEPT !.link[c] = "broken", !.hup = @ \cup Watches(kern, c)]
        BY <3>1 DEF Break
      <4> DEFINE x == [kern.link EXCEPT ![c] = "broken"]
                 y == Watches(kern, c)
      <4>2. kern' = [kern EXCEPT !.link = x, !.hup = kern.hup \cup y]
        BY <4>1
      <4> HIDE DEF x, y
      <4> QED
        BY <4>2
    <3>2. CASE UdpError
      BY <3>2 DEF UdpError
    <3> QED
      BY <1>2, <3>1, <3>2
  <2>2. kern'.sock = kern.sock /\ kern'.watch = kern.watch /\ kern'.full = kern.full
        /\ kern'.ready = kern.ready /\ kern.hup \subseteq kern'.hup
    BY <2>1 DEF Kernels
  <2> QED
    BY <2>2 DEF Stirred
<1>3. CASE Drain
  <2>1. PICK s : kern' = [kern EXCEPT !.full = @ \ {s}, !.ready = @ \cup Outs(kern, s)]
    BY <1>3 DEF Drain
  <2> DEFINE y == Outs(kern, s)
             w == <<kern.sock[fd], fd, "out">>
  <2>2. kern.sock[fd] = s => w \in y
    <3>1. w \in kern.watch
      BY DEF Hooked
    <3> QED
      BY <3>1 DEF Outs, Watches
  <2>3. kern' = [kern EXCEPT !.full = kern.full \ {s}, !.ready = kern.ready \cup y]
    BY <2>1
  <2> HIDE DEF y, w
  <2>4. kern'.sock = kern.sock /\ kern'.watch = kern.watch /\ kern'.full = kern.full \ {s}
        /\ kern'.hup = kern.hup /\ kern'.ready = kern.ready \cup y
    BY <2>3 DEF Kernels
  <2> QED
    BY <2>2, <2>4 DEF Stirred, w
<1> QED
  BY <1>1, <1>2, <1>3 DEF Env

LEMMA EnvPumps == ASSUME IInv, Lively, Env PROVE Lively'
<1>1. kern \in Kernels
  BY IInvIs
<1>2. /\ pool' = pool /\ reg' = reg /\ stack' = stack /\ current' = current
      /\ accepting' = accepting /\ batch' = batch /\ fate' = fate
  BY DEF Env, Connect, Arrive, Break, UdpError, Drain, EnvVars
<1>3. ASSUME NEW g \in Fds, Pumps(reg, g)
      PROVE  /\ kern'.sock = kern.sock /\ kern'.watch = kern.watch
             /\ Stirred(kern, g) => Stirred(kern', g)
  BY <1>1, <1>3, EnvStirs DEF Lively
<1>4. \A g \in Fds : Hangs(g)
  BY <1>2, <1>3 DEF Hangs
<1>5. ASSUME fate' = "run", NEW g \in Fds, Pumps(reg', g) PROVE Pumped(g)'
  <2>1. Pumped(g) /\ (Stirred(kern, g) => Stirred(kern', g))
    BY <1>2, <1>3, <1>5 DEF Lively
  <2> QED
    BY <1>2, <2>1 DEF Pumped, Woken
<1> QED
  BY <1>4, <1>5, LivelyAgain

LEMMA StutterPumps == ASSUME Lively, UNCHANGED vars PROVE Lively'
  BY DEF vars, Lively, Pumped

(* The UDP writer is the only writer at the start. *)
LEMMA InitWriter ==
  ASSUME Init, NEW fd \in Fds, Pumps(reg, fd)
  PROVE  fd = UW
<1> DEFINE ur == <<"udp-read", 0>>
           uw == <<"udp-write", 0>>
           r == AddListeners
           s == AddFd(r, UR, "udp-read", ur)
           t == AddFd(s, UW, "udp-write", uw)
<1>1. reg = t
  BY DEF Init
<1>2. /\ r \in Registry /\ RegistryInv(r)
      /\ \A g \in Fds : IsRegistered(r, g) <=> g \in Listeners
      /\ \A g \in Listeners : r.info[g].cat = "tcp-listen" /\ r.info[g].url[1] = "tcp-listen"
  BY ListenersAdded
<1> HIDE DEF r
<1>3. /\ ur \in Urls /\ uw \in Urls /\ "udp-read" \in Cats /\ "udp-write" \in Cats
  BY NamesAre, NumbersAre
<1> HIDE DEF ur, uw
<1>4. /\ UR \in Fds /\ UW \in Fds /\ UR # UW /\ UR \notin Listeners /\ UW \notin Listeners
  BY NumbersAre
<1>5. s \in Registry /\ s.info = [r.info EXCEPT ![UR] = [cat |-> "udp-read", url |-> ur]]
  <2>1. Added(r, s, UR, "udp-read", ur)
    BY <1>2, <1>3, <1>4, AddFields
  <2> QED
    BY <1>2, <1>3, <1>4, <2>1, AddKeepsRegistry DEF Added
<1> HIDE DEF s
<1>6. t.info = [s.info EXCEPT ![UW] = [cat |-> "udp-write", url |-> uw]]
  <2>1. Added(s, t, UW, "udp-write", uw)
    BY <1>3, <1>4, <1>5, AddFields
  <2> QED
    BY <2>1 DEF Added
<1> HIDE DEF t
<1>7. r.info \in [Fds -> Info \cup {NoInfo}]
  BY <1>2 DEF Registry
<1>8. /\ t.info[UR].cat = "udp-read"
      /\ \A g \in Fds : g # UR /\ g # UW => t.info[g] = r.info[g]
  BY <1>4, <1>5, <1>6, <1>7
<1> SUFFICES ASSUME fd # UW PROVE FALSE
  OBVIOUS
<1>9. CASE fd = UR
  BY <1>1, <1>8, <1>9 DEF Pumps, Writers
<1>10. CASE fd # UR
  <2>1. t.info[fd] = r.info[fd] /\ IsRegistered(r, fd)
    BY <1>1, <1>8, <1>10 DEF Pumps, IsRegistered
  <2> QED
    BY <1>1, <1>2, <2>1 DEF Pumps, Writers
<1> QED
  BY <1>9, <1>10

LEMMA InitLively == ASSUME Init PROVE Lively
<1>1. \A fd \in Fds : Pumps(reg, fd) => fd = UW
  BY InitWriter
<1>2. kern = InitKern /\ pool = get_read_buffer(InitPool, UR)
  BY DEF Init
<1>3. UW \in Fds /\ UW # UR /\ UR \in Fds
  BY NumbersAre
<1>4. kern.sock[UW] = UdpSock /\ <<UdpSock, UW, "out">> \in kern.watch
      /\ <<UdpSock, UW, "out">> \in kern.ready
  BY <1>2, <1>3 DEF InitKern
<1>5. Hooked(reg, kern)
  BY <1>1, <1>4 DEF Hooked
<1>6. Pumped(UW)
  BY <1>4 DEF Pumped, Woken, Stirred
<1> QED
  BY <1>1, <1>5, <1>6 DEF Lively

(* A writer that keeps a packet will try again: its socket is full, or the  *)
(* kernel reports it, or the loop has its event, or it is in its callback.  *)
THEOREM Pumping == Spec => []Lively
<1>1. Init => Lively
  BY InitLively
<1>2. IInv /\ Lively /\ [Next]_vars => Lively'
  <2> SUFFICES ASSUME IInv, Lively, [Next]_vars PROVE Lively'
    OBVIOUS
  <2>1. CASE Poll
    BY <2>1, PollPumps
  <2>2. CASE HandleError
    BY <2>2, HandleErrorPumps
  <2>3. CASE HandleEvent
    BY <2>3, HandleEventPumps
  <2>4. CASE TcpCoNone
    BY <2>4, TcpCoNonePumps
  <2>5. CASE TcpCo
    BY <2>5, TcpCoPumps
  <2>6. CASE TcpCoWriter
    BY <2>6, TcpCoWriterPumps
  <2>7. CASE TcpRead
    BY <2>7, TcpReadPumps
  <2>8. CASE UdpRead
    BY <2>8, UdpReadPumps
  <2>9. CASE Dup2Link
    BY <2>9, Dup2LinkPumps
  <2>10. CASE LightningSend
    BY <2>10, LightningSendPumps
  <2>11. CASE Dup2Done \/ LightningDone
    BY <2>11, DonePumps
  <2>12. CASE TcpWrite
    BY <2>12, TcpWritePumps
  <2>13. CASE UdpWrite
    BY <2>13, UdpWritePumps
  <2>14. CASE Env
    BY <2>14, EnvPumps
  <2>15. CASE UNCHANGED vars
    BY <2>15, StutterPumps
  <2> QED
    BY <2>1, <2>2, <2>3, <2>4, <2>5, <2>6, <2>7, <2>8, <2>9, <2>10, <2>11, <2>12, <2>13,
       <2>14, <2>15 DEF Next, Step
<1> QED
  BY <1>1, <1>2, Invariance, PTL DEF Spec

(* No wake-up is lost: at rest, a writer that keeps a packet waits for room *)
(* in its socket, or epoll is about to report it (edge-triggered epoll      *)
(* would leave a writer that was not read until EAGAIN asleep for ever).    *)
THEOREM WritersStayPumped == Spec => []WritersPumped
<1>1. IInv /\ Lively => WritersPumped
  <2> SUFFICES ASSUME IInv, Lively, AtRest, NEW fd \in Registered(reg),
                      reg.info[fd].cat \in Writers,
                      pool.used[fd] # NoBuffer \/ pool.writeWaiting[fd] # <<>>
               PROVE  SockOf(fd) \in kern.full \/ \E w \in Pending : w[2] = fd
    BY DEF WritersPumped
  <2>1. stack = <<>> /\ fate = "run" /\ batch.err = {} /\ batch.cb = {}
    BY DEF AtRest, AtLoop, EmptyBatch
  <2>2. fd \in Fds /\ Pumps(reg, fd)
    BY DEF Pumps, Registered, IsRegistered
  <2>3. Pumped(fd) /\ ~ Idle(pool, fd)
    BY <2>1, <2>2 DEF Lively, Idle
  <2>4. Stirred(kern, fd)
    BY <2>1, <2>3 DEF Pumped, Calls, Due, Woken, Announced
  <2>5. kern.ready \subseteq Pending /\ kern.hup \subseteq Pending
    BY DEF Pending
  <2>6. CASE <<kern.sock[fd], fd, "out">> \in kern.ready
    <3> DEFINE w == <<kern.sock[fd], fd, "out">>
    <3>1. w \in Pending /\ w[2] = fd
      BY <2>5, <2>6
    <3> QED
      BY <3>1
  <2> QED
    BY <2>4, <2>5, <2>6 DEF Stirred, SockOf
<1> QED
  BY <1>1, Invariance, Pumping, PTL

-----------------------------------------------------------------------------
(* The order of what a link has sent and of what it has yet to send.       *)

(* Packet x is the k-th of fd: the last one sent, the one being written,   *)
(* and those queued, in their order.                                       *)
At(p, s, fd, k, x) ==
  /\ x # Blank
  /\ \/ k = 0 /\ x = s[fd]
     \/ k = 1 /\ p.used[fd] # NoBuffer /\ x = p.pkt[p.used[fd]]
     \/ \E i \in 1 .. Len(p.writeWaiting[fd]) :
          k = i + 1 /\ x = p.pkt[p.writeWaiting[fd][i]]

Rising(p, s, fd) ==
  \A j, k, x, y : At(p, s, fd, j, x) /\ At(p, s, fd, k, y) /\ j < k => x < y

Below(p, s, fd, n) == \A k, x : At(p, s, fd, k, x) => x < n

(* q and t have nothing of fd that p and s do not.                         *)
Thin(p, s, q, t, fd) == \A k, x : At(q, t, fd, k, x) => At(p, s, fd, k, x)

(* ... or at least nothing in another order.                               *)
Milder(p, s, q, t, fd) ==
  /\ Rising(p, s, fd) => Rising(q, t, fd)
  /\ \A n : Below(p, s, fd, n) => Below(q, t, fd, n)

(* g still has the same packet in hand. *)
Keep(p, q, g) ==
  /\ q.used[g] = p.used[g]
  /\ p.used[g] # NoBuffer => q.pkt[p.used[g]] = p.pkt[p.used[g]]

LEMMA ThinMilder ==
  ASSUME NEW p, NEW s, NEW q, NEW t, NEW fd, Thin(p, s, q, t, fd)
  PROVE  Milder(p, s, q, t, fd)
<1>1. Rising(p, s, fd) => Rising(q, t, fd)
  BY DEF Thin, Rising
<1>2. \A n : Below(p, s, fd, n) => Below(q, t, fd, n)
  BY DEF Thin, Below
<1> QED
  BY <1>1, <1>2 DEF Milder

LEMMA ThinSame == \A p, s, fd : Thin(p, s, p, s, fd)
  BY DEF Thin

LEMMA ThinThen ==
  ASSUME NEW p, NEW s, NEW q, NEW t, NEW r, NEW u, NEW fd,
         Thin(p, s, q, t, fd), Thin(q, t, r, u, fd)
  PROVE  Thin(p, s, r, u, fd)
  BY DEF Thin

LEMMA MilderThen ==
  ASSUME NEW p, NEW s, NEW q, NEW t, NEW r, NEW u, NEW fd,
         Milder(p, s, q, t, fd), Milder(q, t, r, u, fd)
  PROVE  Milder(p, s, r, u, fd)
  BY DEF Milder

LEMMA KeepThen ==
  ASSUME NEW p, NEW q, NEW r, NEW g, Keep(p, q, g), Keep(q, r, g)
  PROVE  Keep(p, r, g)
  BY DEF Keep

(* Thin, when what is queued is as it was or blank. *)
LEMMA ThinIs ==
  ASSUME NEW p, Sound(p), NEW q, NEW s, NEW g \in Fds, NoMore(p, q, g),
         \A b \in Buffers : Holds(p.writeWaiting[g], b) => q.pkt[b] = p.pkt[b] \/ q.pkt[b] = Blank
  PROVE  Thin(p, s, q, s, g)
<1> SUFFICES ASSUME NEW k, NEW x, At(q, s, g, k, x) PROVE At(p, s, g, k, x)
  BY DEF Thin
<1>1. CASE k = 0 /\ x = s[g]
  BY <1>1 DEF At
<1>2. CASE k = 1 /\ q.used[g] # NoBuffer /\ x = q.pkt[q.used[g]]
  BY <1>2 DEF At, NoMore
<1>3. CASE \E i \in 1 .. Len(q.writeWaiting[g]) : k = i + 1 /\ x = q.pkt[q.writeWaiting[g][i]]
  <2>1. PICK i \in 1 .. Len(q.writeWaiting[g]) : k = i + 1 /\ x = q.pkt[q.writeWaiting[g][i]]
    BY <1>3
  <2>2. q.writeWaiting[g] = p.writeWaiting[g]
    BY <2>1 DEF NoMore
  <2>3. p.writeWaiting[g] \in Seq(Buffers)
    BY SoundIs
  <2>4. p.writeWaiting[g][i] \in Buffers /\ Holds(p.writeWaiting[g], p.writeWaiting[g][i])
    BY <2>1, <2>2, <2>3 DEF Holds
  <2>5. x = p.pkt[p.writeWaiting[g][i]]
    BY <2>1, <2>2, <2>4 DEF At
  <2> QED
    BY <2>1, <2>2, <2>5 DEF At
<1> QED
  BY <1>1, <1>2, <1>3 DEF At

Blanks(p, q) == \A b \in Buffers : q.pkt[b] = p.pkt[b] \/ q.pkt[b] = Blank

LEMMA BlanksThin ==
  ASSUME NEW p, Sound(p), NEW q, NEW s, NEW g \in Fds, NoMore(p, q, g), Blanks(p, q)
  PROVE  Thin(p, s, q, s, g)
  BY ThinIs DEF Blanks

(* No buffer in hand is queued, free, or in anybody else's hand. *)
LEMMA InHand ==
  ASSUME NEW p, Sound(p), NEW g \in Fds, p.used[g] # NoBuffer
  PROVE  /\ p.used[g] \in Buffers
         /\ \A f \in Fds : ~ Holds(p.writeWaiting[f], p.used[g])
         /\ \A f \in Fds \ {g} : p.used[f] # p.used[g]
         /\ \A y : <<y, p.used[g]>> \notin p.app
         /\ ~ Holds(p.free, p.used[g])
<1>1. p.used[g] \in Buffers
  BY SoundIs
<1>2. Place(p, p.used[g], "used", g)
  BY DEF Place
<1> QED
  BY <1>1, <1>2, OnlyThere

LEMMA GetReadThins ==
  ASSUME NEW p, Sound(p), NEW fd \in Fds, NEW q, q = get_read_buffer(p, fd), NEW s
  PROVE  /\ \A g \in Fds : Thin(p, s, q, s, g)
         /\ \A g \in Fds \ {fd} : Keep(p, q, g)
<1>1. p.used \in [Fds -> Buffers \cup {NoBuffer}] /\ p \in Pool
  BY SoundIs
<1>2. CASE p.used[fd] # NoBuffer
  BY <1>2, ThinSame DEF get_read_buffer, Keep
<1>3. CASE p.used[fd] = NoBuffer /\ p.free = <<>>
  <2>1. q = [p EXCEPT !.readWaiting = Append(p.readWaiting, fd)]
    BY <1>3 DEF get_read_buffer
  <2>2. q.used = p.used /\ q.pkt = p.pkt /\ q.writeWaiting = p.writeWaiting
    BY <1>1, <2>1 DEF Pool
  <2> QED
    BY <2>2 DEF Thin, At, Keep
<1>4. CASE p.used[fd] = NoBuffer /\ p.free # <<>>
  <2>1. q = [p EXCEPT !.used[fd] = Head(p.free), !.free = Tail(p.free)]
    BY <1>4 DEF get_read_buffer
  <2>2. q.used = [p.used EXCEPT ![fd] = Head(p.free)] /\ q.pkt = p.pkt
        /\ q.writeWaiting = p.writeWaiting
    BY <1>1, <2>1 DEF Pool
  <2>3. q.used[fd] = Head(p.free) /\ \A g \in Fds \ {fd} : q.used[g] = p.used[g]
    BY <1>1, <2>2
  <2>4. p.pkt[Head(p.free)] = Blank
    BY <1>4, HeadFree
  <2> HIDE DEF NoBuffer
  <2>5. ASSUME NEW g \in Fds PROVE Thin(p, s, q, s, g)
    BY <2>2, <2>3, <2>4 DEF Thin, At
  <2> QED
    BY <2>2, <2>3, <2>5 DEF Keep
<1> QED
  BY <1>2, <1>3, <1>4

LEMMA ReadToFreeThins ==
  ASSUME NEW p, Sound(p), NEW fd \in Fds, NEW q, q = mv_buffer_rtof(p, fd), NEW s
  PROVE  /\ \A g \in Fds : Thin(p, s, q, s, g)
         /\ \A g \in Fds \ {fd} : Keep(p, q, g)
         /\ p.used[fd] # NoBuffer => q.pkt[p.used[fd]] = Blank
<1>1. p.used \in [Fds -> Buffers \cup {NoBuffer}] /\ p \in Pool
      /\ p.pkt \in [Buffers -> Packets \cup {Blank}]
  BY SoundIs
<1>2. CASE p.used[fd] = NoBuffer
  BY <1>2, ThinSame DEF mv_buffer_rtof, Keep
<1>3. CASE p.used[fd] # NoBuffer
  <2> DEFINE b == p.used[fd]
             f == Append(p.free, b)
             u == [p.used EXCEPT ![fd] = NoBuffer]
             m == [p.pkt EXCEPT ![b] = Blank]
  <2>1. q = [p EXCEPT !.used = u, !.free = f, !.pkt = m]
    BY <1>3 DEF mv_buffer_rtof, push_to_free
  <2>2. b \in Buffers /\ \A g \in Fds \ {fd} : p.used[g] # b
    BY <1>3, InHand
  <2>3. \A g \in Fds \ {fd} : u[g] = p.used[g]
    BY <1>1
  <2>4. m[b] = Blank /\ \A c \in Buffers \ {b} : m[c] = p.pkt[c]
    BY <1>1, <2>2
  <2> HIDE DEF b, f, u, m
  <2>5. q.used = u /\ q.pkt = m
    BY <1>1, <2>1 DEF Pool
  <2>6. Blanks(p, q)
    BY <2>4, <2>5 DEF Blanks
  <2>7. \A g \in Fds : NoMore(p, q, g)
    BY ReadToFreeLeaves
  <2>8. ASSUME NEW g \in Fds \ {fd} PROVE Keep(p, q, g)
    <3>1. p.used[g] # NoBuffer => p.used[g] \in Buffers \ {b}
      BY <1>1, <2>2
    <3> QED
      BY <2>3, <2>4, <2>5, <3>1 DEF Keep
  <2> QED
    BY <2>4, <2>5, <2>6, <2>7, <2>8, BlanksThin DEF b
<1> QED
  BY <1>2, <1>3

LEMMA FillThins ==
  ASSUME NEW p, Sound(p), NEW fd \in Fds, p.used[fd] # NoBuffer, NEW x, NEW q,
         q = FillBuffer(p, fd, x), NEW s
  PROVE  /\ \A g \in Fds \ {fd} : Thin(p, s, q, s, g) /\ Keep(p, q, g)
         /\ \A k, y : k # 1 /\ At(q, s, fd, k, y) => At(p, s, fd, k, y)
         /\ q.used[fd] = p.used[fd] /\ q.pkt[p.used[fd]] = x
<1>1. p \in Pool /\ p.pkt \in [Buffers -> Packets \cup {Blank}]
      /\ p.writeWaiting \in [Fds -> Seq(Buffers)]
  BY SoundIs
<1> DEFINE b == p.used[fd]
           m == [p.pkt EXCEPT ![b] = x]
<1>2. q = [p EXCEPT !.pkt = m]
  BY DEF FillBuffer
<1>3. b \in Buffers /\ (\A g \in Fds \ {fd} : p.used[g] # b)
      /\ \A g \in Fds : ~ Holds(p.writeWaiting[g], b)
  BY InHand
<1>4. m[b] = x /\ \A c \in Buffers \ {b} : m[c] = p.pkt[c]
  BY <1>1, <1>3
<1> HIDE DEF b, m
<1>5. q.used = p.used /\ q.pkt = m /\ q.writeWaiting = p.writeWaiting
  BY <1>1, <1>2 DEF Pool
<1>6. ASSUME NEW g \in Fds \ {fd} PROVE Thin(p, s, q, s, g) /\ Keep(p, q, g)
  <2>1. NoMore(p, q, g)
    BY FilledLeaves
  <2>2. \A c \in Buffers : Holds(p.writeWaiting[g], c) => q.pkt[c] = p.pkt[c]
    BY <1>3, <1>4, <1>5
  <2>3. p.used[g] # NoBuffer => p.used[g] \in Buffers \ {b}
    BY <1>3, SoundIs
  <2> QED
    BY <1>4, <1>5, <2>1, <2>2, <2>3, ThinIs DEF Keep
<1>7. ASSUME NEW k, NEW y, k # 1, At(q, s, fd, k, y) PROVE At(p, s, fd, k, y)
  <2>1. \A i \in 1 .. Len(p.writeWaiting[fd]) :
          q.pkt[p.writeWaiting[fd][i]] = p.pkt[p.writeWaiting[fd][i]]
    <3> SUFFICES ASSUME NEW i \in 1 .. Len(p.writeWaiting[fd])
                 PROVE  q.pkt[p.writeWaiting[fd][i]] = p.pkt[p.writeWaiting[fd][i]]
      OBVIOUS
    <3>1. p.writeWaiting[fd][i] \in Buffers /\ Holds(p.writeWaiting[fd], p.writeWaiting[fd][i])
      BY <1>1 DEF Holds
    <3> QED
      BY <1>3, <1>4, <1>5, <3>1
  <2> QED
    BY <1>5, <1>7, <2>1 DEF At
<1> QED
  BY <1>4, <1>5, <1>6, <1>7 DEF b

LEMMA WaiterThins ==
  ASSUME NEW p, Sound(p), NEW q, q = PopWaiter(p) \/ \E fd : q = ForgetFd(p, fd), NEW s
  PROVE  \A g \in Fds : Thin(p, s, q, s, g) /\ Keep(p, q, g)
<1>1. p \in Pool
  BY SoundIs
<1>2. \E w : q = [p EXCEPT !.readWaiting = w]
  BY DEF PopWaiter, ForgetFd
<1>3. q.used = p.used /\ q.pkt = p.pkt /\ q.writeWaiting = p.writeWaiting
  BY <1>1, <1>2 DEF Pool
<1> QED
  BY <1>3 DEF Thin, At, Keep

LEMMA ReleasedThins ==
  ASSUME NEW p, Sound(p), NEW fd \in Fds, NEW q, q = ReleaseAll(p, fd), NEW s
  PROVE  \A g \in Fds : Thin(p, s, q, s, g)
<1>1. p \in Pool
  BY SoundIs
<1> DEFINE held  == IF p.used[fd] = NoBuffer THEN <<>> ELSE <<p.used[fd]>>
           given == held \o p.writeWaiting[fd]
           u == [p.used EXCEPT ![fd] = NoBuffer]
           w == [p.writeWaiting EXCEPT ![fd] = <<>>]
           f == p.free \o given
           m == [b \in Buffers |-> IF \E i \in DOMAIN given : given[i] = b
                                   THEN Blank ELSE p.pkt[b]]
           r == WithoutAll(p.readWaiting, fd)
<1>2. q = [p EXCEPT !.used = u, !.writeWaiting = w, !.free = f, !.pkt = m, !.readWaiting = r]
  BY <1>1 DEF ReleaseAll, Pool
<1>3. \A c \in Buffers : m[c] = p.pkt[c] \/ m[c] = Blank
  OBVIOUS
<1> HIDE DEF u, w, f, m, r
<1>4. q.pkt = m
  BY <1>1, <1>2 DEF Pool
<1> QED
  BY <1>3, <1>4, ReleasedLeaves, BlanksThin DEF Blanks

LEMMA AdoptedThins ==
  ASSUME NEW p, Sound(p), NEW fd \in Fds, NEW inherit, NEW q, q = AdoptFd(p, fd, inherit), NEW s
  PROVE  \A g \in Fds : Thin(p, s, q, s, g)
<1>1. p \in Pool
  BY SoundIs
<1>2. q.pkt = p.pkt
  BY <1>1 DEF AdoptFd, Pool
<1> QED
  BY <1>2, AdoptedLeaves, BlanksThin DEF Blanks

(* x comes after all that there was of fd. *)
Extends(p, s, q, t, fd, x) ==
  \E n \in Nat :
    /\ \A k, y : At(p, s, fd, k, y) => k < n
    /\ \A k, y : At(q, t, fd, k, y) => At(p, s, fd, k, y) \/ (k = n /\ y = x)

LEMMA PlacesAre ==
  ASSUME NEW p, Sound(p), NEW s, NEW fd \in Fds, NEW k, NEW x, At(p, s, fd, k, x)
  PROVE  k \in Nat /\ k < Len(p.writeWaiting[fd]) + 2
<1>1. Len(p.writeWaiting[fd]) \in Nat
  BY SoundIs
<1> QED
  BY <1>1 DEF At

LEMMA PushedRises ==
  ASSUME NEW p, Sound(p), NEW s, NEW q, NEW t, NEW fd \in Fds, NEW x, Extends(p, s, q, t, fd, x),
         x # Blank => Below(p, s, fd, x)
  PROVE  /\ Rising(p, s, fd) => Rising(q, t, fd)
         /\ \A n : Below(p, s, fd, n) /\ (x # Blank => x < n) => Below(q, t, fd, n)
<1>1. PICK n \in Nat :
        /\ \A k, y : At(p, s, fd, k, y) => k < n
        /\ \A k, y : At(q, t, fd, k, y) => At(p, s, fd, k, y) \/ (k = n /\ y = x)
  BY DEF Extends
<1>2. \A k, y : At(q, t, fd, k, y) => y # Blank
  BY DEF At
<1>3. \A k, y : At(p, s, fd, k, y) => k \in Nat
  BY PlacesAre
<1>4. ASSUME Rising(p, s, fd), NEW j, NEW k, NEW y, NEW z,
             At(q, t, fd, j, y), At(q, t, fd, k, z), j < k
      PROVE  y < z
  <2>1. CASE At(p, s, fd, j, y) /\ At(p, s, fd, k, z)
    BY <1>4, <2>1 DEF Rising
  <2>2. CASE At(p, s, fd, j, y) /\ k = n /\ z = x
    BY <1>2, <1>4, <2>2 DEF Below
  <2>3. CASE j = n /\ y = x
    <3>1. k = n \/ (k \in Nat /\ k < n)
      BY <1>1, <1>3, <1>4
    <3> QED
      BY <1>4, <2>3, <3>1
  <2> QED
    BY <1>1, <1>4, <2>1, <2>2, <2>3
<1>5. ASSUME NEW m, Below(p, s, fd, m), x # Blank => x < m PROVE Below(q, t, fd, m)
  BY <1>1, <1>2, <1>5 DEF Below
<1> QED
  BY <1>4, <1>5 DEF Rising

(* Appending buffer b, which holds x in q, to the queue of fd. *)
LEMMA AppendPushes ==
  ASSUME NEW p, Sound(p), NEW s, NEW q, NEW fd \in Fds, NEW b \in Buffers,
         q.writeWaiting[fd] = Append(p.writeWaiting[fd], b),
         q.used[fd] = p.used[fd],
         p.used[fd] # NoBuffer => q.pkt[p.used[fd]] = p.pkt[p.used[fd]],
         \A c \in Buffers : Holds(p.writeWaiting[fd], c) => q.pkt[c] = p.pkt[c]
  PROVE  Extends(p, s, q, s, fd, q.pkt[b])
<1> DEFINE w == p.writeWaiting[fd]
           v == q.writeWaiting[fd]
           n == Len(w) + 2
<1>1. w \in Seq(Buffers) /\ Len(w) \in Nat
  BY SoundIs
<1>2. Len(v) = Len(w) + 1 /\ v[Len(w) + 1] = b /\ \A i \in 1 .. Len(w) : v[i] = w[i]
  BY <1>1
<1>3. \A k, y : At(p, s, fd, k, y) => k < n
  BY PlacesAre
<1>4. ASSUME NEW k, NEW y, At(q, s, fd, k, y)
      PROVE  At(p, s, fd, k, y) \/ (k = n /\ y = q.pkt[b])
  <2>1. CASE k = 0 /\ y = s[fd]
    BY <1>4, <2>1 DEF At
  <2>2. CASE k = 1 /\ q.used[fd] # NoBuffer /\ y = q.pkt[q.used[fd]]
    BY <1>4, <2>2 DEF At
  <2>3. CASE \E i \in 1 .. Len(v) : k = i + 1 /\ y = q.pkt[v[i]]
    <3>1. PICK i \in 1 .. Len(v) : k = i + 1 /\ y = q.pkt[v[i]]
      BY <2>3
    <3>2. CASE i \in 1 .. Len(w)
      <4>1. v[i] = w[i] /\ w[i] \in Buffers /\ Holds(w, w[i])
        BY <1>1, <1>2, <3>2 DEF Holds
      <4>2. y = p.pkt[w[i]]
        BY <3>1, <4>1
      <4> QED
        BY <1>4, <3>1, <3>2, <4>2 DEF At
    <3>3. CASE i \notin 1 .. Len(w)
      <4>1. i = Len(w) + 1
        BY <1>1, <1>2, <3>1, <3>3
      <4> HIDE DEF w, v
      <4> QED
        BY <1>1, <1>2, <3>1, <4>1
    <3> QED
      BY <3>2, <3>3
  <2> QED
    BY <1>4, <2>1, <2>2, <2>3 DEF At
<1>5. n \in Nat
  BY <1>1
<1> QED
  BY <1>3, <1>4, <1>5 DEF Extends

LEMMA ReadToWriteThins ==
  ASSUME NEW p, Sound(p), NEW fd \in Fds, NEW to \in Fds, fd # to, p.used[fd] # NoBuffer,
         NEW q, q = mv_buffer_rtow(p, fd, to), NEW s
  PROVE  /\ \A g \in Fds \ {to} : Thin(p, s, q, s, g)
         /\ \A g \in Fds \ {fd} : Keep(p, q, g)
         /\ Extends(p, s, q, s, to, p.pkt[p.used[fd]])
<1>1. p.used \in [Fds -> Buffers \cup {NoBuffer}] /\ p \in Pool
      /\ p.writeWaiting \in [Fds -> Seq(Buffers)] /\ p.used[fd] \in Buffers
  BY SoundIs
<1> DEFINE w == Append(p.writeWaiting[to], p.used[fd])
<1>2. q = [p EXCEPT !.used[fd] = NoBuffer, !.writeWaiting[to] = w]
  BY DEF mv_buffer_rtow
<1> HIDE DEF w
<1>3. q.used = [p.used EXCEPT ![fd] = NoBuffer] /\ q.pkt = p.pkt
      /\ q.writeWaiting = [p.writeWaiting EXCEPT ![to] = w]
  BY <1>1, <1>2 DEF Pool
<1>4. (\A g \in Fds \ {fd} : q.used[g] = p.used[g]) /\ q.writeWaiting[to] = w
  BY <1>1, <1>3
<1>5. \A g \in Fds \ {to} : Thin(p, s, q, s, g)
  BY <1>3, ReadToWriteLeaves, BlanksThin DEF Blanks
<1>6. Extends(p, s, q, s, to, q.pkt[p.used[fd]])
  BY <1>1, <1>3, <1>4, AppendPushes DEF w
<1> QED
  BY <1>3, <1>4, <1>5, <1>6 DEF Keep

LEMMA DupToWriteThins ==
  ASSUME NEW p, Sound(p), p.free # <<>>, NEW b \in Buffers, NEW to \in Fds,
         NEW q, q = dup_buffer_tow(p, b, to), NEW s
  PROVE  /\ \A g \in Fds \ {to} : Thin(p, s, q, s, g)
         /\ \A g \in Fds : Keep(p, q, g)
         /\ Extends(p, s, q, s, to, p.pkt[b])
<1>1. p \in Pool /\ p.writeWaiting \in [Fds -> Seq(Buffers)]
      /\ p.pkt \in [Buffers -> Packets \cup {Blank}]
      /\ p.used \in [Fds -> Buffers \cup {NoBuffer}]
  BY SoundIs
<1> DEFINE h == Head(p.free)
           t == Tail(p.free)
           w == Append(p.writeWaiting[to], h)
           m == [p.pkt EXCEPT ![h] = p.pkt[b]]
           u == [p.writeWaiting EXCEPT ![to] = w]
<1>2. q = [p EXCEPT !.free = t, !.writeWaiting = u, !.pkt = m]
  BY DEF dup_buffer_tow, inject_buffer_tow
<1>3. h \in Buffers /\ (\A g \in Fds : p.used[g] # h)
      /\ \A g \in Fds : ~ Holds(p.writeWaiting[g], h)
  <2>1. h \in Buffers /\ Place(p, h, "free", 0)
    BY HeadFree
  <2>2. "free" # "queue" /\ "free" # "used"
    OBVIOUS
  <2> QED
    BY <2>1, <2>2, OnlyThere
<1>4. m[h] = p.pkt[b] /\ \A c \in Buffers \ {h} : m[c] = p.pkt[c]
  BY <1>1, <1>3
<1>5. u[to] = w
  BY <1>1
<1> HIDE DEF h, t, w, m, u
<1>6. q.used = p.used /\ q.pkt = m /\ q.writeWaiting = u
  BY <1>1, <1>2 DEF Pool
<1>7. \A g \in Fds : p.used[g] # NoBuffer => m[p.used[g]] = p.pkt[p.used[g]]
  BY <1>1, <1>3, <1>4
<1>8. \A g \in Fds : Keep(p, q, g)
  BY <1>6, <1>7 DEF Keep
<1>9. \A g \in Fds : \A c \in Buffers : Holds(p.writeWaiting[g], c) => q.pkt[c] = p.pkt[c]
  BY <1>3, <1>4, <1>6
<1>10. \A g \in Fds \ {to} : Thin(p, s, q, s, g)
  BY <1>9, DupToWriteLeaves, ThinIs
<1>11. Extends(p, s, q, s, to, q.pkt[h])
  BY <1>3, <1>5, <1>6, <1>7, <1>9, AppendPushes DEF w
<1> QED
  BY <1>4, <1>6, <1>8, <1>10, <1>11

LEMMA DupToAppThins ==
  ASSUME NEW p, Sound(p), p.free # <<>>, NEW b, NEW key, NEW q, q = dup_buffer_toa(p, b, key),
         NEW s
  PROVE  \A g \in Fds : Thin(p, s, q, s, g) /\ Keep(p, q, g)
<1>1. p \in Pool /\ p.pkt \in [Buffers -> Packets \cup {Blank}]
      /\ p.used \in [Fds -> Buffers \cup {NoBuffer}]
  BY SoundIs
<1> DEFINE h == Head(p.free)
           t == Tail(p.free)
           a == p.app \cup {<<key, h>>}
           m == [p.pkt EXCEPT ![h] = p.pkt[b]]
<1>2. q = [p EXCEPT !.free = t, !.app = a, !.pkt = m]
  BY DEF dup_buffer_toa
<1>3. h \in Buffers /\ (\A g \in Fds : p.used[g] # h)
      /\ \A g \in Fds : ~ Holds(p.writeWaiting[g], h)
  <2>1. h \in Buffers /\ Place(p, h, "free", 0)
    BY HeadFree
  <2>2. "free" # "queue" /\ "free" # "used"
    OBVIOUS
  <2> QED
    BY <2>1, <2>2, OnlyThere
<1>4. \A c \in Buffers \ {h} : m[c] = p.pkt[c]
  BY <1>1
<1> HIDE DEF h, t, a, m
<1>5. q.used = p.used /\ q.pkt = m
  BY <1>1, <1>2 DEF Pool
<1>6. \A g \in Fds : p.used[g] # NoBuffer => m[p.used[g]] = p.pkt[p.used[g]]
  BY <1>1, <1>3, <1>4
<1>7. \A g \in Fds : \A c \in Buffers : Holds(p.writeWaiting[g], c) => q.pkt[c] = p.pkt[c]
  BY <1>3, <1>4, <1>5
<1>8. \A g \in Fds : Thin(p, s, q, s, g)
  BY <1>7, DupToAppLeaves, ThinIs
<1> QED
  BY <1>5, <1>6, <1>8 DEF Keep

LEMMA AppToFreeThins ==
  ASSUME NEW p, Sound(p), NEW key, HasApp(p, key), NEW q, q = mv_buffer_atof(p, key), NEW s
  PROVE  \A g \in Fds : Thin(p, s, q, s, g) /\ Keep(p, q, g)
<1>1. p \in Pool /\ p.pkt \in [Buffers -> Packets \cup {Blank}]
      /\ p.app \in SUBSET (Nat \X Buffers)
  BY SoundIs
<1> DEFINE h == CHOOSE c \in Buffers : <<key, c>> \in p.app
           f == Append(p.free, h)
           m == [p.pkt EXCEPT ![h] = Blank]
<1>2. q = [p EXCEPT !.app = p.app \ {<<key, h>>}, !.free = f, !.pkt = m]
  BY <1>1 DEF mv_buffer_atof, push_to_free, Pool
<1>3. <<key, h>> \in p.app
  <2>1. \E c \in Buffers : <<key, c>> \in p.app
    BY <1>1 DEF HasApp
  <2> QED
    BY <2>1
<1> HIDE DEF h
<1>4. \A c \in Buffers : (c # h => m[c] = p.pkt[c]) /\ (m[c] = p.pkt[c] \/ m[c] = Blank)
  BY <1>1
<1> HIDE DEF f, m
<1>5. q.used = p.used /\ q.pkt = m
  BY <1>1, <1>2 DEF Pool
<1>6. \A g \in Fds : p.used[g] # NoBuffer => p.used[g] \in Buffers /\ p.used[g] # h
  BY <1>3, InHand
<1>7. \A g \in Fds : Thin(p, s, q, s, g)
  BY <1>4, <1>5, AppToFreeLeaves, BlanksThin DEF Blanks
<1> QED
  BY <1>4, <1>5, <1>6, <1>7 DEF Keep

(* The next packet of the queue is in hand. *)
LEMMA GetWriteThins ==
  ASSUME NEW p, Sound(p), NEW fd \in Fds, NEW q, q = get_write_buffer(p, fd), NEW s
  PROVE  /\ \A g \in Fds : Milder(p, s, q, s, g)
         /\ \A g \in Fds \ {fd} : Keep(p, q, g)
<1>1. p.used \in [Fds -> Buffers \cup {NoBuffer}] /\ p \in Pool
      /\ p.writeWaiting \in [Fds -> Seq(Buffers)] /\ NoBuffer \notin Buffers
  BY SoundIs
<1>2. CASE p.used[fd] # NoBuffer \/ p.writeWaiting[fd] = <<>>
  <2>1. q = p
    BY <1>2 DEF get_write_buffer
  <2> QED
    BY <1>2, <2>1 DEF Milder, Keep
<1>3. CASE ~ (p.used[fd] # NoBuffer \/ p.writeWaiting[fd] = <<>>)
  <2> DEFINE w == p.writeWaiting[fd]
             b == Head(w)
             t == Tail(w)
  <2>1. q = [p EXCEPT !.used[fd] = b, !.writeWaiting[fd] = t]
    BY <1>3 DEF get_write_buffer
  <2>2. /\ b = w[1] /\ Len(w) \in Nat \ {0} /\ Len(t) = Len(w) - 1
        /\ \A i \in 1 .. Len(t) : t[i] = w[i + 1]
    BY <1>1, <1>3
  <2> HIDE DEF b, t, w
  <2>3. q.used = [p.used EXCEPT ![fd] = b] /\ q.pkt = p.pkt
        /\ q.writeWaiting = [p.writeWaiting EXCEPT ![fd] = t]
    BY <1>1, <2>1 DEF Pool
  <2>4. /\ q.used[fd] = b /\ q.writeWaiting[fd] = t
        /\ \A g \in Fds \ {fd} : q.used[g] = p.used[g] /\ q.writeWaiting[g] = p.writeWaiting[g]
    BY <1>1, <2>3
  <2>5. ASSUME NEW g \in Fds \ {fd} PROVE Milder(p, s, q, s, g) /\ Keep(p, q, g)
    <3>1. Thin(p, s, q, s, g) /\ Keep(p, q, g)
      BY <2>3, <2>4 DEF Thin, At, Keep
    <3> QED
      BY <3>1, ThinMilder
  <2>6. \A k, x : At(q, s, fd, k, x) =>
          \/ k = 0 /\ At(p, s, fd, 0, x)
          \/ k \in Nat \ {0} /\ At(p, s, fd, k + 1, x)
    <3> SUFFICES ASSUME NEW k, NEW x, At(q, s, fd, k, x)
                 PROVE  \/ k = 0 /\ At(p, s, fd, 0, x)
                        \/ k \in Nat \ {0} /\ At(p, s, fd, k + 1, x)
      OBVIOUS
    <3>1. CASE k = 0 /\ x = s[fd]
      BY <3>1 DEF At
    <3>2. CASE k = 1 /\ x = q.pkt[b]
      <4>1. 1 \in 1 .. Len(p.writeWaiting[fd]) /\ x = p.pkt[p.writeWaiting[fd][1]]
        BY <2>2, <2>3, <3>2 DEF w
      <4> QED
        BY <3>2, <4>1 DEF At
    <3>3. CASE \E i \in 1 .. Len(t) : k = i + 1 /\ x = q.pkt[t[i]]
      <4>1. PICK i \in 1 .. Len(t) : k = i + 1 /\ x = q.pkt[t[i]]
        BY <3>3
      <4>2. i + 1 \in 1 .. Len(p.writeWaiting[fd]) /\ x = p.pkt[p.writeWaiting[fd][i + 1]]
            /\ k \in Nat \ {0}
        BY <2>2, <2>3, <4>1 DEF w
      <4> QED
        BY <4>1, <4>2 DEF At
    <3> QED
      BY <2>4, <3>1, <3>2, <3>3 DEF At
  <2>7. ASSUME Rising(p, s, fd), NEW j, NEW k, NEW x, NEW y,
               At(q, s, fd, j, x), At(q, s, fd, k, y), j < k
        PROVE  x < y
    <3>1. \/ j = 0 /\ At(p, s, fd, 0, x)
          \/ j \in Nat \ {0} /\ At(p, s, fd, j + 1, x)
      BY <2>6, <2>7
    <3>2. k \in Nat \ {0} /\ At(p, s, fd, k + 1, y)
      BY <2>6, <2>7, <3>1
    <3>3. \E i \in Nat : At(p, s, fd, i, x) /\ i < k + 1
      BY <2>7, <3>1, <3>2
    <3> QED
      BY <2>7, <3>2, <3>3 DEF Rising
  <2>8. \A n : Below(p, s, fd, n) => Below(q, s, fd, n)
    BY <2>6 DEF Below
  <2>9. Rising(p, s, fd) => Rising(q, s, fd)
    BY <2>7 DEF Rising
  <2> QED
    BY <2>5, <2>8, <2>9 DEF Milder
<1> QED
  BY <1>2, <1>3

(* The packet in hand is sent. *)
LEMMA SentThins ==
  ASSUME NEW p, Sound(p), NEW fd \in Fds, p.used[fd] # NoBuffer, p.pkt[p.used[fd]] # Blank,
         NEW q, q = mv_buffer_rtof(p, fd), NEW s, s \in [Fds -> Packets],
         NEW t, t = [s EXCEPT ![fd] = p.pkt[p.used[fd]]]
  PROVE  \A g \in Fds : Milder(p, s, q, t, g)
<1>1. t[fd] = p.pkt[p.used[fd]] /\ \A g \in Fds \ {fd} : t[g] = s[g]
  OBVIOUS
<1>2. \A g \in Fds : Thin(p, s, q, s, g)
  BY ReadToFreeThins
<1>3. q.used[fd] = NoBuffer
  BY ReadToFreeLeaves
<1>4. ASSUME NEW g \in Fds \ {fd} PROVE Milder(p, s, q, t, g)
  <2>1. Thin(p, s, q, t, g)
    BY <1>1, <1>2 DEF Thin, At
  <2> QED
    BY <2>1, ThinMilder
<1>5. \A k, x : At(q, t, fd, k, x) =>
        \/ k = 0 /\ At(p, s, fd, 1, x)
        \/ k \in Nat /\ k > 1 /\ At(p, s, fd, k, x)
  <2> SUFFICES ASSUME NEW k, NEW x, At(q, t, fd, k, x)
               PROVE  \/ k = 0 /\ At(p, s, fd, 1, x)
                      \/ k \in Nat /\ k > 1 /\ At(p, s, fd, k, x)
    OBVIOUS
  <2>1. CASE k = 0 /\ x = t[fd]
    BY <1>1, <2>1 DEF At
  <2>2. CASE \E i \in 1 .. Len(q.writeWaiting[fd]) : k = i + 1 /\ x = q.pkt[q.writeWaiting[fd][i]]
    <3>1. At(q, s, fd, k, x)
      BY <2>2 DEF At
    <3>2. Len(q.writeWaiting[fd]) \in Nat
      BY ReadToFree, SoundIs
    <3>3. k \in Nat /\ k > 1
      BY <2>2, <3>2
    <3> QED
      BY <1>2, <3>1, <3>3 DEF Thin
  <2> QED
    BY <1>3, <2>1, <2>2 DEF At
<1>6. Rising(p, s, fd) => Rising(q, t, fd)
  BY <1>5 DEF Rising
<1>7. \A n : Below(p, s, fd, n) => Below(q, t, fd, n)
  BY <1>5 DEF Below
<1> QED
  BY <1>4, <1>6, <1>7 DEF Milder

-----------------------------------------------------------------------------
(* The datagram that dup2 or lightning is sending over the links.          *)

(* The writers dup2 calls may wake the UDP reader: the first one to free the *)
(* buffer that dup2 is sending, the second one to read another datagram     *)
(* into it, which the third link then gets.  With two links no third        *)
(* follows, and lightning sends to two links at most.                       *)
Narrow == NPorts <= 2 \/ algo # "dup2"

(* The call f has links to send over. *)
Open(f) ==
  \/ f.pc = "dup2" /\ f.i <= NPorts
  \/ f.pc = "lightning" /\ f.links # <<>>

(* ... two at most, and at most one. *)
Few(f) ==
  \/ f.pc = "dup2" /\ f.i > 0 /\ NPorts <= 2
  \/ /\ f.pc = "lightning" /\ Len(f.links) <= 2
     /\ Len(f.links) = 2 => f.links[1] # f.links[2]

OneToGo(f) == IF f.pc = "dup2" THEN f.i >= 2 ELSE Len(f.links) <= 1

(* f may still send to g. *)
Ahead(r, f, g) ==
  IF f.pc = "dup2"
  THEN \E k \in 1 .. Len(r.list["tcp-write"]) : k >= f.i /\ g = r.list["tcp-write"][k]
  ELSE g # NoFd /\ \E k \in 1 .. Len(f.links) : g = FromUrl(r, <<"tcp-write", f.links[k]>>)

(* f sends the datagram n, which the UDP reader still has in hand and the   *)
(* links that f has yet to send to have not seen ...                       *)
Held(p, s, r, n, f) ==
  /\ f.bp # NoBuffer /\ p.used[UR] = f.bp /\ p.pkt[f.bp] = n
  /\ \A g \in Fds : Ahead(r, f, g) => Below(p, s, g, n)

(* ... or the reader has released its buffer meanwhile.                    *)
Spent(p, f) == p.pkt[f.bp] = Blank /\ OneToGo(f)

Calm(st) == \A i \in 1 .. Len(st) : ~ Open(st[i])

(* Only the innermost call of dup2 or of lightning still sends; it is on    *)
(* top, or waits for the last but one of its links.                        *)
Spreading(p, s, r, n, st) ==
  \/ Calm(st)
  \/ /\ Head(st).pc \in Loops /\ Calm(Tail(st)) /\ Few(Head(st))
     /\ Held(p, s, r, n, Head(st)) \/ Spent(p, Head(st))
  \/ /\ Head(st).pc \notin Loops /\ Calm(Tail(Tail(st)))
     /\ LET f == Head(Tail(st)) IN Few(f) /\ OneToGo(f) /\ Held(p, s, r, n, f)

(* The UDP socket's descriptors are the only ones of their categories.     *)
Posted(r) ==
  /\ IsRegistered(r, UR) /\ r.info[UR].cat = "udp-read"
  /\ \A fd \in Fds : IsRegistered(r, fd) =>
       /\ r.info[fd].cat = "udp-read" => fd = UR
       /\ r.info[fd].cat = "udp-write" => fd = UW

Links == Fds \ {UR, UW}

InOrder(p, s, n) == \A fd \in Links : Rising(p, s, fd) /\ Below(p, s, fd, n + 1)

Ranked ==
  /\ Narrow => InOrder(pool, sent, stamp)
  /\ Narrow /\ fate = "run" => Spreading(pool, sent, reg, stamp, stack)
  /\ Posted(reg)

LEMMA CalmIs ==
  ASSUME NEW f \in Frame, NEW st \in Seq(Frame)
  PROVE  Calm(<<f>> \o st) <=> ~ Open(f) /\ Calm(st)
<1> DEFINE t == <<f>> \o st
<1>1. Len(t) = Len(st) + 1 /\ t[1] = f /\ Len(st) \in Nat
      /\ \A i \in 1 .. Len(st) : t[i + 1] = st[i]
  BY PushedIs
<1> HIDE DEF t
<1>2. \A i \in 1 .. Len(t) : i = 1 \/ (i - 1 \in 1 .. Len(st) /\ (i - 1) + 1 = i)
  BY <1>1
<1>3. 1 \in 1 .. Len(t) /\ \A i \in 1 .. Len(st) : i + 1 \in 1 .. Len(t)
  BY <1>1
<1>4. ASSUME Calm(t) PROVE ~ Open(f) /\ Calm(st)
  <2>1. \A i \in 1 .. Len(t) : ~ Open(t[i])
    BY <1>4 DEF Calm
  <2>2. ~ Open(f)
    BY <1>1, <1>3, <2>1
  <2>3. ASSUME NEW i \in 1 .. Len(st) PROVE ~ Open(st[i])
    <3>1. ~ Open(t[i + 1]) /\ t[i + 1] = st[i]
      BY <1>1, <1>3, <2>1
    <3> QED
      BY <3>1
  <2> QED
    BY <2>2, <2>3 DEF Calm
<1>5. ASSUME ~ Open(f), Calm(st) PROVE Calm(t)
  <2> SUFFICES ASSUME NEW i \in 1 .. Len(t) PROVE ~ Open(t[i])
    BY DEF Calm
  <2>1. CASE i = 1
    BY <1>1, <1>5, <2>1
  <2>2. CASE i - 1 \in 1 .. Len(st) /\ (i - 1) + 1 = i
    <3>1. t[i] = st[i - 1]
      BY <1>1, <2>2
    <3> QED
      BY <1>5, <2>2, <3>1 DEF Calm
  <2> QED
    BY <1>2, <2>1, <2>2
<1> QED
  BY <1>4, <1>5 DEF t

LEMMA CalmEmpty == Calm(<<>>)
  BY DEF Calm

LEMMA CalmTail ==
  ASSUME NEW st \in Seq(Frame), st # <<>>
  PROVE  /\ Calm(st) => Calm(Tail(st))
         /\ Calm(Tail(st)) /\ ~ Open(Head(st)) => Calm(st)
<1>1. Head(st) \in Frame /\ Tail(st) \in Seq(Frame) /\ st = <<Head(st)>> \o Tail(st)
  BY TopIs
<1>2. Calm(<<Head(st)>> \o Tail(st)) <=> ~ Open(Head(st)) /\ Calm(Tail(st))
  BY <1>1, CalmIs
<1> QED
  BY <1>1, <1>2, Zenon

(* The call on top of dup2 or of lightning is the only one that sends.     *)
LEMMA LoopCalm ==
  ASSUME NEW st \in Seq(Frame), st # <<>>, Head(st).pc \in Loops,
         NEW p, NEW s, NEW r, NEW n, Spreading(p, s, r, n, st)
  PROVE  /\ Calm(Tail(st))
         /\ Open(Head(st)) =>
              Few(Head(st)) /\ (Held(p, s, r, n, Head(st)) \/ Spent(p, Head(st)))
<1>1. CASE Calm(st)
  <2>1. ~ Open(Head(st))
    <3>1. Head(st) = st[1] /\ 1 \in 1 .. Len(st)
      BY TopIs
    <3> QED
      BY <1>1, <3>1, Zenon DEF Calm
  <2> QED
    BY <1>1, <2>1, CalmTail
<1>2. CASE ~ Calm(st)
  BY <1>2 DEF Spreading
<1> QED
  BY <1>1, <1>2

(* A callback on top: nothing is being sent, or the call below sends it.   *)
LEMMA CallbackCalm ==
  ASSUME NEW st \in Seq(Frame), st # <<>>, Head(st).pc \notin Loops,
         NEW p, NEW s, NEW r, NEW n, Spreading(p, s, r, n, st), ~ Calm(Tail(st))
  PROVE  /\ Tail(st) \in Seq(Frame) /\ Tail(st) # <<>> /\ Calm(Tail(Tail(st)))
         /\ Few(Head(Tail(st))) /\ OneToGo(Head(Tail(st)))
         /\ Held(p, s, r, n, Head(Tail(st)))
         /\ Head(Tail(st)) \in Frame /\ Head(Tail(st)).pc \in Loops
<1>1. ~ Calm(st)
  BY CalmTail
<1>2. Tail(st) \in Seq(Frame) /\ Tail(st) # <<>>
  BY TopIs, CalmEmpty
<1>3. Head(Tail(st)) \in Frame
  BY <1>2, TopIs
<1> QED
  BY <1>1, <1>2, <1>3 DEF Spreading, Few, Loops

(* How a call that is not a loop over the links leaves the stack.          *)
Steps ==
  \/ stack' = Tail(stack)
  \/ \E f \in Frame : f.pc \notin Loops /\ stack' = <<f>> \o Tail(stack)

LEMMA NotLoop ==
  ASSUME NEW f, f.pc \notin Loops
  PROVE  ~ Open(f)
  BY DEF Open, Loops

LEMMA StepsSpread ==
  ASSUME stack \in Seq(Frame), stack # <<>>, Top.pc \notin Loops, Steps,
         NEW p, NEW s, NEW r, NEW n, Spreading(p, s, r, n, stack),
         NEW q, NEW t, NEW u, \A f \in Frame : Held(p, s, r, n, f) => Held(q, t, u, n, f)
  PROVE  Spreading(q, t, u, n, stack')
<1>1. Tail(stack) \in Seq(Frame)
  BY TopIs
<1>2. CASE Calm(Tail(stack))
  <2>1. CASE stack' = Tail(stack)
    BY <1>2, <2>1 DEF Spreading
  <2>2. CASE \E f \in Frame : f.pc \notin Loops /\ stack' = <<f>> \o Tail(stack)
    <3>1. PICK f \in Frame : f.pc \notin Loops /\ stack' = <<f>> \o Tail(stack)
      BY <2>2
    <3>2. Calm(<<f>> \o Tail(stack))
      BY <1>1, <1>2, <3>1, CalmIs, NotLoop
    <3> QED
      BY <3>1, <3>2, Zenon DEF Spreading
  <2> QED
    BY <2>1, <2>2 DEF Steps
<1>3. CASE ~ Calm(Tail(stack))
  <2> DEFINE e == Head(Tail(stack))
  <2>1. /\ Tail(stack) # <<>> /\ Calm(Tail(Tail(stack))) /\ Few(e) /\ OneToGo(e)
        /\ Held(p, s, r, n, e) /\ e \in Frame /\ e.pc \in Loops
    BY <1>3, CallbackCalm DEF Top
  <2>2. Held(q, t, u, n, e)
    BY <2>1
  <2>3. CASE stack' = Tail(stack)
    BY <2>1, <2>2, <2>3 DEF Spreading
  <2>4. CASE \E f \in Frame : f.pc \notin Loops /\ stack' = <<f>> \o Tail(stack)
    <3>1. PICK f \in Frame : f.pc \notin Loops /\ stack' = <<f>> \o Tail(stack)
      BY <2>4
    <3>2. Head(<<f>> \o Tail(stack)) = f /\ Tail(<<f>> \o Tail(stack)) = Tail(stack)
      BY <1>1, PushedIs
    <3>3. Head(stack') = f /\ Tail(stack') = Tail(stack)
      BY <3>1, <3>2, Zenon
    <3> HIDE DEF e
    <3>4. Head(stack').pc \notin Loops /\ Calm(Tail(Tail(stack'))) /\ Head(Tail(stack')) = e
      BY <2>1, <3>1, <3>3 DEF e
    <3> QED
      BY <2>1, <2>2, <3>4, Zenon DEF Spreading
  <2> QED
    BY <2>3, <2>4 DEF Steps
<1> QED
  BY <1>2, <1>3

-----------------------------------------------------------------------------
LEMMA AtPacket ==
  ASSUME NEW p, Sound(p), NEW s \in [Fds -> Packets], NEW fd \in Fds, NEW k, NEW x,
         At(p, s, fd, k, x)
  PROVE  x \in Packets
<1>1. /\ p.pkt \in [Buffers -> Packets \cup {Blank}]
      /\ p.used \in [Fds -> Buffers \cup {NoBuffer}]
      /\ p.writeWaiting[fd] \in Seq(Buffers)
  BY SoundIs
<1>2. x # Blank
  BY DEF At
<1>3. CASE k = 0 /\ x = s[fd]
  BY <1>3
<1>4. CASE k = 1 /\ p.used[fd] # NoBuffer /\ x = p.pkt[p.used[fd]]
  BY <1>1, <1>2, <1>4
<1>5. CASE \E i \in 1 .. Len(p.writeWaiting[fd]) :
             k = i + 1 /\ x = p.pkt[p.writeWaiting[fd][i]]
  BY <1>1, <1>2, <1>5
<1> QED
  BY <1>3, <1>4, <1>5 DEF At

LEMMA BelowMore ==
  ASSUME NEW p, Sound(p), NEW s \in [Fds -> Packets], NEW fd \in Fds, NEW n \in Nat,
         NEW m \in Nat, n <= m, Below(p, s, fd, n)
  PROVE  Below(p, s, fd, m)
<1>1. \A x \in Packets : x \in Nat
  BY ProxyAssumption
<1> SUFFICES ASSUME NEW k, NEW x, At(p, s, fd, k, x) PROVE x < m
  BY DEF Below
<1>2. x < n /\ x \in Nat
  BY <1>1, AtPacket DEF Below
<1> QED
  BY <1>2

(* No step but that of a loop over the links adds to a link.               *)
Gentle(p, s, q, t) == \A g \in Links : Milder(p, s, q, t, g)

LEMMA ThinGentle ==
  ASSUME NEW p, NEW s, NEW q, NEW t, \A g \in Fds : Thin(p, s, q, t, g)
  PROVE  Gentle(p, s, q, t)
  BY ThinMilder DEF Gentle, Links

LEMMA OrderStays ==
  ASSUME NEW p, NEW s, NEW q, NEW t, NEW n, Gentle(p, s, q, t), InOrder(p, s, n)
  PROVE  InOrder(q, t, n)
  BY DEF Gentle, InOrder, Milder

(* x is the next of to.                                                    *)
LEMMA NextInOrder ==
  ASSUME NEW p, Sound(p), NEW s \in [Fds -> Packets], NEW q, NEW n \in Nat, NEW m \in Nat,
         n <= m, InOrder(p, s, n), NEW to \in Links, NEW x, Extends(p, s, q, s, to, x),
         x # Blank => x = m /\ Below(p, s, to, x),
         \A g \in Fds \ {to} : Thin(p, s, q, s, g)
  PROVE  InOrder(q, s, m)
<1>1. to \in Fds
  BY DEF Links
<1>2. n + 1 \in Nat /\ m + 1 \in Nat /\ n + 1 <= m + 1 /\ m < m + 1
  OBVIOUS
<1>3. \A g \in Links : Rising(p, s, g) /\ Below(p, s, g, m + 1)
  BY <1>2, BelowMore DEF InOrder, Links
<1>4. ASSUME NEW g \in Links \ {to} PROVE Rising(q, s, g) /\ Below(q, s, g, m + 1)
  <2>1. Milder(p, s, q, s, g)
    BY ThinMilder DEF Links
  <2> QED
    BY <1>3, <2>1 DEF Milder
<1>5. Rising(q, s, to) /\ Below(q, s, to, m + 1)
  <2>1. x # Blank => Below(p, s, to, x) /\ x < m + 1
    BY <1>2
  <2> QED
    BY <1>1, <1>3, <2>1, PushedRises
<1> QED
  BY <1>4, <1>5 DEF InOrder

-----------------------------------------------------------------------------
(* The links that are still to come.                                       *)

FewerAhead(r, t) == \A f \in Frame : \A g \in Fds : Ahead(t, f, g) => Ahead(r, f, g)

LEMMA AheadIs ==
  ASSUME NEW r, NEW k, Wired(r, k), Posted(r), NEW f \in Frame, NEW g,
         Ahead(r, f, g)
  PROVE  g \in Links /\ IsRegistered(r, g) /\ r.info[g].cat = "tcp-write"
<1>1. g \in Fds /\ IsRegistered(r, g) /\ r.info[g].cat = "tcp-write"
  <2>1. CASE f.pc = "dup2"
    <3>1. \E i \in 1 .. Len(r.list["tcp-write"]) : g = r.list["tcp-write"][i]
      BY <2>1 DEF Ahead
    <3> QED
      BY <3>1, NamesAre, Leads
  <2>2. CASE f.pc # "dup2"
    <3>1. f.links \in Seq(Ports)
      BY DEF Frame
    <3>2. PICK i \in 1 .. Len(f.links) : g = FromUrl(r, <<"tcp-write", f.links[i]>>)
      BY <2>2 DEF Ahead
    <3>3. f.links[i] \in Ports
      BY <3>1, <3>2
    <3>4. <<"tcp-write", f.links[i]>> \in Urls
      BY <3>3, NamesAre, NumbersAre
    <3>5. g # NoFd
      BY <2>2 DEF Ahead
    <3> QED
      BY <3>2, <3>4, <3>5, Leads
  <2> QED
    BY <2>1, <2>2
<1>2. g # UR
  BY <1>1 DEF Posted
<1>3. g # UW
  BY <1>1, WiredIs
<1> QED
  BY <1>1, <1>2, <1>3 DEF Links

LEMMA LaterOnly ==
  ASSUME NEW s \in Seq(Fds), NEW fd, NEW t, t = WithoutFd(s, fd)
  PROVE  \A j \in 1 .. Len(t) : \E i \in 1 .. Len(s) : i >= j /\ t[j] = s[i]
<1>1. DOMAIN s = 1 .. Len(s) /\ Len(s) \in Nat
  BY DomainIs
<1>2. CASE ~ \E i \in DOMAIN s : s[i] = fd
  <2>1. t = s
    BY <1>2 DEF WithoutFd
  <2> QED
    BY <1>1, <2>1
<1>3. CASE \E i \in DOMAIN s : s[i] = fd
  <2>1. PICK k \in 1 .. Len(s) :
          t = [j \in 1 .. (Len(s) - 1) |-> IF j < k THEN s[j] ELSE s[j + 1]]
    BY <1>1, <1>3 DEF WithoutFd
  <2>2. Len(s) - 1 \in Nat
    BY <1>1, <2>1
  <2>3. \A j \in 1 .. (Len(s) - 1) : t[j] = (IF j < k THEN s[j] ELSE s[j + 1]) /\ t[j] \in Fds
    BY <1>1, <2>1
  <2>4. Len(t) = Len(s) - 1
    <3>1. t \in [1 .. (Len(s) - 1) -> Fds]
      BY <2>1, <2>3
    <3> QED
      BY <2>2, <3>1
  <2>5. ASSUME NEW j \in 1 .. Len(t) PROVE \E i \in 1 .. Len(s) : i >= j /\ t[j] = s[i]
    <3>1. j \in 1 .. Len(s) /\ j + 1 \in 1 .. Len(s) /\ j >= j /\ j + 1 >= j
      BY <1>1, <2>4
    <3>2. t[j] = s[j] \/ t[j] = s[j + 1]
      BY <2>3, <2>4
    <3> QED
      BY <3>1, <3>2
  <2> QED
    BY <2>5
<1> QED
  BY <1>2, <1>3

LEMMA RemovedAhead ==
  ASSUME NEW r \in Registry, NEW fd \in Fds, IsRegistered(r, fd), NEW t, t = RmFd(r, fd)
  PROVE  FewerAhead(r, t)
<1> DEFINE c == r.info[fd].cat
           u == r.info[fd].url
<1>1. Removed(r, t, fd, c, u)
  BY RmFields
<1>2. r.list \in [Cats -> Seq(Fds)] /\ r.url \in [Urls -> Fds \cup {NoFd}]
  BY DEF Registry
<1> HIDE DEF c, u
<1>3. /\ c \in Cats /\ t.list = [r.list EXCEPT ![c] = WithoutFd(r.list[c], fd)]
      /\ t.url = [r.url EXCEPT ![u] = NoFd]
  BY <1>1 DEF Removed
<1> SUFFICES ASSUME NEW f \in Frame, NEW g \in Fds, Ahead(t, f, g) PROVE Ahead(r, f, g)
  BY DEF FewerAhead
<1>4. CASE f.pc = "dup2"
  <2> DEFINE s == r.list["tcp-write"]
             v == t.list["tcp-write"]
  <2>1. s \in Seq(Fds) /\ (v = s \/ v = WithoutFd(s, fd))
    BY <1>2, <1>3, NamesAre
  <2>2. f.i \in Nat
    BY DEF Frame
  <2>3. PICK k \in 1 .. Len(v) : k >= f.i /\ g = v[k]
    BY <1>4 DEF Ahead
  <2> HIDE DEF s, v
  <2>4. \E i \in 1 .. Len(s) : i >= k /\ v[k] = s[i]
    <3>1. CASE v = s
      BY <2>3, <3>1
    <3>2. CASE v = WithoutFd(s, fd)
      BY <2>1, <2>3, <3>2, LaterOnly
    <3> QED
      BY <2>1, <3>1, <3>2
  <2>5. \E i \in 1 .. Len(s) : i >= f.i /\ g = s[i]
    BY <2>2, <2>3, <2>4
  <2> QED
    BY <1>4, <2>5 DEF Ahead, s
<1>5. CASE f.pc # "dup2"
  <2>1. g # NoFd /\ \E k \in 1 .. Len(f.links) : g = FromUrl(t, <<"tcp-write", f.links[k]>>)
    BY <1>5 DEF Ahead
  <2>2. PICK k \in 1 .. Len(f.links) : g = FromUrl(t, <<"tcp-write", f.links[k]>>)
    BY <2>1
  <2>3. f.links \in Seq(Ports)
    BY DEF Frame
  <2>4. f.links[k] \in Ports
    BY <2>2, <2>3
  <2> DEFINE w == <<"tcp-write", f.links[k]>>
  <2>5. w \in Urls
    BY <2>4, NamesAre, NumbersAre
  <2>6. t.url[w] = r.url[w] \/ t.url[w] = NoFd
    <3> HIDE DEF w
    <3> QED
      BY <1>2, <1>3, <2>5
  <2>7. g = FromUrl(r, <<"tcp-write", f.links[k]>>)
    BY <2>1, <2>2, <2>6 DEF FromUrl
  <2> QED
    BY <1>5, <2>1, <2>7 DEF Ahead
<1> QED
  BY <1>4, <1>5

(* A step that leaves the packet in hand and adds nothing leaves it held.   *)
LEMMA HeldStays ==
  ASSUME NEW p, NEW s, NEW r, NEW k, Wired(r, k), Posted(r), NEW n, NEW f \in Frame,
         Held(p, s, r, n, f), NEW q, NEW t, NEW u, Gentle(p, s, q, t), Keep(p, q, UR),
         FewerAhead(r, u)
  PROVE  Held(q, t, u, n, f)
<1>1. f.bp # NoBuffer /\ q.used[UR] = f.bp /\ q.pkt[f.bp] = n
  BY DEF Held, Keep
<1>2. ASSUME NEW g \in Fds, Ahead(u, f, g) PROVE Below(q, t, g, n)
  <2>1. Ahead(r, f, g)
    BY <1>2 DEF FewerAhead
  <2>2. g \in Links /\ Below(p, s, g, n)
    BY <2>1, AheadIs DEF Held
  <2> QED
    BY <2>2 DEF Gentle, Milder
<1> QED
  BY <1>1, <1>2 DEF Held

-----------------------------------------------------------------------------
(* The descriptors of the UDP socket.                                      *)

LEMMA PostedRemoved ==
  ASSUME NEW r, Posted(r), NEW fd \in Fds, fd # UR, NEW t, SameBut(r, t, fd),
         ~ IsRegistered(t, fd)
  PROVE  Posted(t)
  BY NumbersAre DEF Posted, SameBut

LEMMA PostedAdded ==
  ASSUME NEW r, Posted(r), NEW fd \in Fds, ~ IsRegistered(r, fd), NEW t, SameBut(r, t, fd),
         t.info[fd].cat \in {"tcp-read", "tcp-write"}
  PROVE  Posted(t)
  BY NumbersAre DEF Posted, SameBut

LEMMA PostedSame ==
  ASSUME NEW r, Posted(r), NEW t, t.info = r.info
  PROVE  Posted(t)
  BY DEF Posted, IsRegistered

-----------------------------------------------------------------------------
(* The steps of the callbacks.                                             *)

LEMMA ReturnSteps ==
  ASSUME Called, NEW v, Return(v)
  PROVE  Steps /\ (Len(stack) # 1 => stack' = Tail(stack))
<1>1. stack' = IF /\ Len(stack) = 1 /\ accepting = NoFd /\ v = 0
                  /\ IsRegistered(reg', current)
               THEN <<Callback(reg', current, FALSE)>> ELSE Tail(stack)
  BY DEF Return
<1>2. CASE Len(stack) = 1 /\ IsRegistered(reg', current)
           /\ stack' = <<Callback(reg', current, FALSE)>>
  <2> DEFINE f == Callback(reg', current, FALSE)
  <2>1. stack \in Seq(Frame) /\ stack # <<>> /\ current \in Fds
    BY CalledIs DEF Called
  <2>2. Tail(stack) = <<>>
    <3>1. Tail(stack) \in Seq(Frame) /\ Len(Tail(stack)) = 0
      BY <1>2, <2>1, TopIs
    <3> QED
      BY <3>1, NoneIs
  <2>3. f \in Frame /\ f.pc \notin Loops
    <3>1. Wired(reg', kern')
      BY DEF Called
    <3>2. reg'.info[current].cat \in CatNames
      BY <1>2, <2>1, <3>1, WiredIs, NamesAre
    <3>3. <<>> \in Seq(Ports)
      OBVIOUS
    <3> QED
      BY <2>1, <3>2, <3>3, NamesAre DEF Callback, Frame
  <2>4. stack' = <<f>>
    BY <1>2
  <2> HIDE DEF f
  <2>5. <<f>> \o <<>> = <<f>>
    BY <2>3
  <2> QED
    BY <1>2, <2>2, <2>3, <2>4, <2>5 DEF Steps
<1>3. CASE stack' = Tail(stack)
  BY <1>3 DEF Steps
<1> QED
  BY <1>1, <1>2, <1>3

LEMMA AnswerSteps ==
  ASSUME Called, NEW v, Answer(v)
  PROVE  Steps /\ (Len(stack) # 1 => stack' = Tail(stack))
  BY ReturnSteps DEF Answer

LEMMA CallSteps ==
  ASSUME NEW f \in Frame, f.pc \notin Loops, TailCall(f)
  PROVE  Steps
  BY DEF Steps, TailCall

LEMMA CallbackSteps ==
  ASSUME Called, reg' = reg, NEW fd \in Fds, IsRegistered(reg, fd),
         reg.info[fd].cat # "tcp-listen", TailCall(Callback(reg, fd, TRUE))
  PROVE  Steps
<1> DEFINE f == Callback(reg, fd, TRUE)
<1>1. Wired(reg', kern')
  BY DEF Called
<1>2. f \in Frame
  BY <1>1, CallbackRuns
<1>3. f.pc \notin Loops
  BY <1>1, WiredIs, NamesAre DEF Callback
<1>4. TailCall(f)
  OBVIOUS
<1> HIDE DEF f
<1> QED
  BY <1>2, <1>3, <1>4, CallSteps

LEMMA NotifySteps ==
  ASSUME Called, reg' = reg, NEW p, Sound(p), notify_read(p), NEW s
  PROVE  /\ fate' = "run" => Steps
         /\ \A g \in Fds : Thin(p, s, pool', s, g) /\ Keep(p, pool', g)
<1>1. CASE p.readWaiting = <<>>
  <2>1. pool' = p /\ Return(0)
    BY <1>1 DEF notify_read
  <2>2. \A g \in Fds : Thin(p, s, pool', s, g) /\ Keep(p, pool', g)
    BY <2>1, ThinSame DEF Keep
  <2> QED
    BY <2>1, <2>2, ReturnSteps
<1>2. CASE p.readWaiting # <<>>
  <2>1. pool' = PopWaiter(p)
    BY <1>2 DEF notify_read
  <2>2. Head(p.readWaiting) \in Fds \cup {Stale}
    BY <1>2, WaiterPopped
  <2>3. PICK n \in IF Head(p.readWaiting) = Stale THEN Fds ELSE {Head(p.readWaiting)} :
               IF IsRegistered(reg, n) /\ reg.info[n].cat \in Readers
               THEN TailCall(Callback(reg, n, TRUE))
               ELSE /\ fate' = "exit"
                    /\ UNCHANGED <<stack, current, accepting>>
    BY <1>2 DEF notify_read
  <2>4. n \in Fds
    BY <2>2
  <2>5. \A g \in Fds : Thin(p, s, pool', s, g) /\ Keep(p, pool', g)
    BY <2>1, WaiterThins
  <2>6. CASE IsRegistered(reg, n) /\ reg.info[n].cat \in Readers
    <3>1. reg.info[n].cat # "tcp-listen"
      BY <2>6 DEF Readers
    <3> QED
      BY <2>3, <2>4, <2>5, <2>6, <3>1, CallbackSteps
  <2> QED
    BY <2>3, <2>5, <2>6
<1> QED
  BY <1>1, <1>2

LEMMA StreamSteps ==
  ASSUME Called, reg' = reg, NEW fd \in Fds, fd # UW, NEW p, Sound(p), p.used[fd] # NoBuffer,
         on_stream(p, fd), NEW s
  PROVE  /\ Steps /\ pool'.used[fd] = NoBuffer
         /\ \A g \in Fds \ {UW} : Thin(p, s, pool', s, g)
         /\ \A g \in Fds \ {fd} : Keep(p, pool', g)
<1>1. UW \in Fds /\ IsRegistered(reg, UW) /\ reg.info[UW].cat # "tcp-listen"
  BY WiredIs, NumbersAre DEF Called
<1>2. CASE pool' = mv_buffer_rtow(p, fd, UW) /\ TailCall(Callback(reg, UW, TRUE))
  <2>1. Steps
    BY <1>1, <1>2, CallbackSteps
  <2>2. pool'.used[fd] = NoBuffer
    BY <1>1, <1>2, ReadToWriteLeaves
  <2> QED
    BY <1>1, <1>2, <2>1, <2>2, ReadToWriteThins
<1>3. CASE pool' = mv_buffer_rtof(p, fd) /\ (Answer(1) \/ Answer(0))
  <2>1. Steps
    BY <1>3, AnswerSteps
  <2>2. pool'.used[fd] = NoBuffer
    BY <1>3, ReadToFreeLeaves
  <2> QED
    BY <1>3, <2>1, <2>2, ReadToFreeThins
<1> QED
  BY <1>2, <1>3 DEF on_stream

LEMMA CallbackRanks ==
  ASSUME IInv, Ranked, stack # <<>>, Top.pc \notin Loops, fate = "run",
         fate' = "run" => Steps, Gentle(pool, sent, pool', sent'), Keep(pool, pool', UR),
         FewerAhead(reg, reg'), Posted(reg'), stamp' = stamp, algo' = algo
  PROVE  Ranked'
<1>1. stack \in Seq(Frame) /\ Wired(reg, kern)
  BY IInvIs DEF Nested
<1>2. Narrow' = Narrow
  BY DEF Narrow
<1>3. ASSUME Narrow PROVE InOrder(pool', sent', stamp')
  BY <1>3, OrderStays DEF Ranked
<1>4. ASSUME Narrow, fate' = "run" PROVE Spreading(pool', sent', reg', stamp', stack')
  <2>1. Spreading(pool, sent, reg, stamp, stack)
    BY <1>4 DEF Ranked
  <2>2. \A f \in Frame :
          Held(pool, sent, reg, stamp, f) => Held(pool', sent', reg', stamp, f)
    BY <1>1, HeldStays DEF Ranked
  <2>3. Spreading(pool', sent', reg', stamp, stack')
    BY <1>1, <1>4, <2>1, <2>2, StepsSpread
  <2> QED
    BY <2>3
<1> QED
  BY <1>2, <1>3, <1>4 DEF Ranked

LEMMA SameAhead ==
  ASSUME NEW r
  PROVE  FewerAhead(r, r)
  BY DEF FewerAhead

LEMMA RemovedRanks ==
  ASSUME IInv, Ranked, NEW p, NEW fd \in Fds, IsRegistered(reg, fd),
         reg.info[fd].cat \in {"tcp-read", "tcp-write"}, rm_fd(p, fd)
  PROVE  FewerAhead(reg, reg') /\ Posted(reg')
<1>1. reg' = RmFd(reg, fd) /\ Wired(reg, kern) /\ kern \in Kernels
  BY IInvIs DEF rm_fd
<1>2. FewerAhead(reg, reg')
  BY <1>1, WiredIs, RemovedAhead
<1>3. SameBut(reg, reg', fd) /\ ~ IsRegistered(reg', fd)
  BY <1>1, RmWired
<1>4. fd # UR /\ Posted(reg)
  BY DEF Ranked, Posted
<1> QED
  BY <1>2, <1>3, <1>4, PostedRemoved

LEMMA TcpReadRanks == ASSUME IInv, Ranked, TcpRead PROVE Ranked'
<1> DEFINE fd == Top.fd
           s  == SockOf(fd)
           p  == get_read_buffer(pool, fd)
           b  == p.used[fd]
<1>1. /\ stack # <<>> /\ fate = "run" /\ fd \in Fds /\ Top.pc = "tcp-read"
      /\ IsRegistered(reg, fd) /\ reg.info[fd].cat = "tcp-read" /\ s \in Files
  BY NamesAre, RunningIs DEF TcpRead, SockOf
<1>2. sent' = sent /\ stamp' = stamp /\ algo' = algo
  BY DEF TcpRead, ReadVars, app_ctx
<1>3. Sound(p) /\ Sound(pool)
  BY <1>1, IInvIs, GetRead
<1>4. \/ UNCHANGED <<reg, kern>> /\ pool' = p /\ Answer(1)
      \/ rm_fd(mv_buffer_rtof(p, fd), fd) /\ Answer(1)
      \/ /\ b # NoBuffer /\ kern.rx[s] > 0 /\ kern' = Consume(s) /\ UNCHANGED reg
         /\ on_stream(FillBuffer(p, fd, Cell), fd)
      \/ b # NoBuffer /\ UNCHANGED <<reg, kern>> /\ on_stream(p, fd)
  BY DEF TcpRead
<1>5. fd # UR /\ fd # UW /\ Posted(reg) /\ Top.pc \notin Loops /\ UR \in Fds
  BY <1>1, IInvIs, WiredIs, NumbersAre DEF Ranked, Posted, Loops
<1>6. (\A g \in Fds : Thin(pool, sent, p, sent, g)) /\ \A g \in Fds \ {fd} : Keep(pool, p, g)
  BY <1>1, <1>3, GetReadThins
<1> HIDE DEF fd, s, p, b
<1>7. CASE UNCHANGED <<reg, kern>> /\ pool' = p /\ Answer(1)
  <2>1. Called
    BY <1>1, <1>7, StillCalled
  <2>2. Steps
    BY <1>7, <2>1, AnswerSteps
  <2>3. Gentle(pool, sent, pool', sent') /\ Keep(pool, pool', UR)
    BY <1>2, <1>5, <1>6, <1>7, ThinGentle
  <2> QED
    BY <1>1, <1>2, <1>5, <1>7, <2>2, <2>3, SameAhead, CallbackRanks
<1>8. CASE rm_fd(mv_buffer_rtof(p, fd), fd) /\ Answer(1)
  <2> DEFINE q == mv_buffer_rtof(p, fd)
  <2>1. /\ Sound(q) /\ \A g \in Fds : Thin(p, sent, q, sent, g)
        /\ \A g \in Fds \ {fd} : Keep(p, q, g)
    BY <1>1, <1>3, ReadToFree, ReadToFreeThins
  <2> HIDE DEF q
  <2>2. rm_fd(q, fd)
    BY <1>8 DEF q
  <2>3. Called
    BY <1>1, <2>1, <2>2, Removing
  <2>4. Steps
    BY <1>8, <2>3, AnswerSteps
  <2>5. FewerAhead(reg, reg') /\ Posted(reg')
    BY <1>1, <2>2, RemovedRanks
  <2>6. \A g \in Fds : Thin(q, sent, pool', sent, g) /\ Keep(q, pool', g)
    BY <2>1, <2>2, WaiterThins DEF rm_fd
  <2>7. Gentle(pool, sent, pool', sent')
    BY <1>2, <1>6, <2>1, <2>6, ThinThen, ThinGentle
  <2>8. Keep(pool, pool', UR)
    BY <1>5, <1>6, <2>1, <2>6, KeepThen
  <2> QED
    BY <1>1, <1>2, <1>5, <2>4, <2>5, <2>7, <2>8, CallbackRanks
<1>9. CASE /\ b # NoBuffer /\ kern.rx[s] > 0 /\ kern' = Consume(s) /\ UNCHANGED reg
           /\ on_stream(FillBuffer(p, fd, Cell), fd)
  <2> DEFINE q == FillBuffer(p, fd, Cell)
  <2>1. kern'.sock = kern.sock
    BY <1>1, <1>9, IInvIs, Consuming
  <2>2. Called
    BY <1>1, <1>9, <2>1, StillCalled
  <2>3. Cell \in Packets
    BY ProxyAssumption DEF Cell
  <2>4. Sound(q) /\ q.used = p.used
    BY <1>1, <1>3, <1>9, <2>3, Filled DEF b
  <2>5. /\ \A g \in Fds \ {fd} : Thin(p, sent, q, sent, g) /\ Keep(p, q, g)
        /\ \A k, y : k # 1 /\ At(q, sent, fd, k, y) => At(p, sent, fd, k, y)
    BY <1>1, <1>3, <1>9, FillThins DEF b
  <2> HIDE DEF q
  <2>6. on_stream(q, fd) /\ q.used[fd] # NoBuffer
    BY <1>9, <2>4 DEF q, b
  <2>7. /\ Steps /\ pool'.used[fd] = NoBuffer
        /\ \A g \in Fds \ {UW} : Thin(q, sent, pool', sent, g)
        /\ \A g \in Fds \ {fd} : Keep(q, pool', g)
    BY <1>1, <1>5, <1>9, <2>2, <2>4, <2>6, StreamSteps
  <2>8. Thin(pool, sent, pool', sent, fd)
    <3> SUFFICES ASSUME NEW k, NEW x, At(pool', sent, fd, k, x) PROVE At(pool, sent, fd, k, x)
      BY DEF Thin
    <3>1. Len(pool'.writeWaiting[fd]) \in Nat
      <4>1. Sound(pool')
        BY <1>1, <1>9, <2>2, <2>4, <2>6, OnStream
      <4> QED
        BY <1>1, <4>1, SoundIs
    <3>2. k # 1
      BY <2>7, <3>1 DEF At
    <3>3. At(q, sent, fd, k, x)
      BY <1>1, <1>5, <2>7 DEF Thin
    <3> QED
      BY <1>1, <1>6, <2>5, <3>2, <3>3 DEF Thin
  <2>9. ASSUME NEW g \in Links \ {fd} PROVE Thin(pool, sent, pool', sent, g)
    <3>1. g \in Fds \ {fd} /\ g \in Fds \ {UW}
      BY DEF Links
    <3> QED
      BY <1>6, <2>5, <2>7, <3>1, ThinThen
  <2>10. Gentle(pool, sent, pool', sent')
    BY <1>2, <2>8, <2>9, ThinMilder DEF Gentle
  <2>11. Keep(pool, pool', UR)
    BY <1>5, <1>6, <2>5, <2>7, KeepThen
  <2> QED
    BY <1>1, <1>2, <1>5, <1>9, <2>7, <2>10, <2>11, SameAhead, CallbackRanks
<1>10. CASE b # NoBuffer /\ UNCHANGED <<reg, kern>> /\ on_stream(p, fd)
  <2>1. Called
    BY <1>1, <1>10, StillCalled
  <2>2. /\ Steps
        /\ \A g \in Fds \ {UW} : Thin(p, sent, pool', sent, g)
        /\ \A g \in Fds \ {fd} : Keep(p, pool', g)
    BY <1>1, <1>3, <1>5, <1>10, <2>1, StreamSteps DEF b
  <2>3. Gentle(pool, sent, pool', sent')
    BY <1>2, <1>6, <2>2, ThinThen, ThinMilder DEF Gentle, Links
  <2>4. Keep(pool, pool', UR)
    BY <1>5, <1>6, <2>2, KeepThen
  <2> QED
    BY <1>1, <1>2, <1>5, <1>10, <2>2, <2>3, <2>4, SameAhead, CallbackRanks
<1> QED
  BY <1>4, <1>7, <1>8, <1>9, <1>10

LEMMA WriterRanks ==
  ASSUME IInv, Ranked, Called, stack # <<>>, Top.pc \notin Loops, reg' = reg,
         stamp' = stamp, algo' = algo, NEW fd \in Fds, fd # UR,
         NEW p, p = get_write_buffer(pool, fd), NEW q, q = mv_buffer_wtof(p, fd),
         \/ sent' = sent
         \/ /\ p.used[fd] # NoBuffer /\ p.pkt[p.used[fd]] # Blank
            /\ sent' = [sent EXCEPT ![fd] = p.pkt[p.used[fd]]]
            /\ notify_read(q),
         \/ pool' = p /\ sent' = sent /\ Answer(1)
         \/ pool' = q /\ sent' = sent /\ Answer(0)
         \/ notify_read(q)
  PROVE  Ranked'
<1>1. Sound(pool) /\ Sound(p) /\ Sound(q) /\ fate = "run" /\ sent \in [Fds -> Packets]
      /\ UR \in Fds /\ Posted(reg)
  BY IInvIs, GetWrite, WriteToFree, WiredIs, NumbersAre DEF Called, Ranked, Posted
<1>2. /\ \A g \in Fds : Milder(pool, sent, p, sent, g)
      /\ \A g \in Fds \ {fd} : Keep(pool, p, g)
  BY <1>1, GetWriteThins
<1>3. /\ \A g \in Fds : Thin(p, sent, q, sent, g)
      /\ \A g \in Fds \ {fd} : Keep(p, q, g)
  BY <1>1, ReadToFreeThins DEF mv_buffer_wtof
<1>4. \A g \in Fds : Milder(p, sent, q, sent', g)
  <2>1. CASE sent' = sent
    BY <1>3, <2>1, ThinMilder
  <2>2. CASE /\ p.used[fd] # NoBuffer /\ p.pkt[p.used[fd]] # Blank
             /\ sent' = [sent EXCEPT ![fd] = p.pkt[p.used[fd]]]
    BY <1>1, <2>2, SentThins DEF mv_buffer_wtof
  <2> QED
    BY <2>1, <2>2
<1>5. Keep(pool, p, UR) /\ Keep(pool, q, UR)
  BY <1>1, <1>2, <1>3, KeepThen
<1>6. /\ fate' = "run" => Steps
      /\ Gentle(pool, sent, pool', sent') /\ Keep(pool, pool', UR)
  <2>1. CASE pool' = p /\ sent' = sent /\ Answer(1)
    BY <1>2, <1>5, <2>1, AnswerSteps DEF Gentle, Links
  <2>2. CASE pool' = q /\ sent' = sent /\ Answer(0)
    BY <1>2, <1>4, <1>5, <2>2, AnswerSteps, MilderThen DEF Gentle, Links
  <2>3. CASE notify_read(q)
    <3>1. /\ fate' = "run" => Steps
          /\ \A g \in Fds : Thin(q, sent', pool', sent', g) /\ Keep(q, pool', g)
      BY <1>1, <2>3, NotifySteps
    <3>2. \A g \in Fds : Milder(q, sent', pool', sent', g)
      BY <3>1, ThinMilder
    <3>3. Gentle(pool, sent, pool', sent')
      BY <1>2, <1>4, <3>2, MilderThen DEF Gentle, Links
    <3> QED
      BY <1>1, <1>5, <3>1, <3>3, KeepThen
  <2> QED
    BY <2>1, <2>2, <2>3
<1> QED
  BY <1>1, <1>6, SameAhead, CallbackRanks

LEMMA TcpWriteRanks == ASSUME IInv, Ranked, TcpWrite PROVE Ranked'
<1> DEFINE fd == Top.fd
           s  == SockOf(fd)
           p  == get_write_buffer(pool, fd)
           b  == p.used[fd]
           q  == mv_buffer_wtof(p, fd)
<1>1. /\ stack # <<>> /\ fate = "run" /\ fd \in Fds /\ s \in Files /\ Top.pc = "tcp-write"
      /\ IsRegistered(reg, fd) /\ reg.info[fd].cat = "tcp-write"
  BY NamesAre, RunningIs DEF TcpWrite, SockOf
<1>2. stamp' = stamp /\ algo' = algo
  BY DEF TcpWrite, WriteVars, app_ctx
<1>3. \/ UNCHANGED <<reg, kern, sent>> /\ pool' = p /\ Answer(1)
      \/ UNCHANGED <<reg, kern, sent>> /\ notify_read(q)
      \/ /\ b # NoBuffer /\ p.pkt[b] # Blank /\ sent' = [sent EXCEPT ![fd] = p.pkt[b]]
         /\ UNCHANGED <<reg, kern>> /\ notify_read(q)
      \/ UNCHANGED <<reg, sent>> /\ kern' = FillUp(s) /\ pool' = p /\ Answer(1)
      \/ rm_fd(q, fd) /\ Answer(1) /\ sent' = sent
  BY DEF TcpWrite
<1>4. Sound(pool) /\ Sound(p) /\ Sound(q)
  BY <1>1, IInvIs, GetWrite, WriteToFree
<1>5. fd # UR /\ UR \in Fds /\ Top.pc \notin Loops
  BY <1>1, IInvIs, WiredIs, NumbersAre DEF Ranked, Posted, Loops
<1>6. kern' = kern \/ kern' = FillUp(s) => kern'.sock = kern.sock
  BY <1>1, IInvIs, Filling
<1> HIDE DEF fd, s, p, q
<1>7. CASE reg' = reg /\ ~ (rm_fd(q, fd) /\ Answer(1) /\ sent' = sent)
  <2>1. Called
    BY <1>1, <1>3, <1>6, <1>7, StillCalled
  <2> QED
    BY <1>1, <1>2, <1>3, <1>5, <1>7, <2>1, WriterRanks DEF p, q
<1>8. CASE rm_fd(q, fd) /\ Answer(1) /\ sent' = sent
  <2>1. Called
    BY <1>1, <1>4, <1>8, Removing
  <2>2. Steps
    BY <1>8, <2>1, AnswerSteps
  <2>3. FewerAhead(reg, reg') /\ Posted(reg')
    BY <1>1, <1>8, RemovedRanks
  <2>4. /\ \A g \in Fds : Milder(pool, sent, p, sent, g)
        /\ \A g \in Fds \ {fd} : Keep(pool, p, g)
    BY <1>1, <1>4, GetWriteThins DEF p
  <2>5. /\ \A g \in Fds : Thin(p, sent, q, sent, g)
        /\ \A g \in Fds \ {fd} : Keep(p, q, g)
    BY <1>1, <1>4, ReadToFreeThins DEF q, mv_buffer_wtof
  <2>6. \A g \in Fds : Thin(q, sent, pool', sent, g) /\ Keep(q, pool', g)
    BY <1>4, <1>8, WaiterThins DEF rm_fd
  <2>7. \A g \in Fds : Milder(p, sent, pool', sent, g)
    BY <2>5, <2>6, ThinThen, ThinMilder
  <2>8. Gentle(pool, sent, pool', sent')
    BY <1>8, <2>4, <2>7, MilderThen DEF Gentle, Links
  <2>9. Keep(pool, pool', UR)
    BY <1>5, <2>4, <2>5, <2>6, KeepThen
  <2> QED
    BY <1>1, <1>2, <1>5, <2>2, <2>3, <2>8, <2>9, CallbackRanks
<1> QED
  BY <1>3, <1>7, <1>8

LEMMA UdpWriteRanks == ASSUME IInv, Ranked, UdpWrite PROVE Ranked'
<1> DEFINE fd == Top.fd
           p  == get_write_buffer(pool, fd)
           b  == p.used[fd]
           q  == mv_buffer_wtof(p, fd)
<1>1. /\ stack # <<>> /\ fate = "run" /\ fd \in Fds /\ Top.pc = "udp-write"
      /\ IsRegistered(reg, fd) /\ reg.info[fd].cat = "udp-write"
  BY NamesAre, RunningIs DEF UdpWrite
<1>2. stamp' = stamp /\ algo' = algo /\ reg' = reg
  BY DEF UdpWrite, WriteVars, app_ctx
<1>3. \/ kern' = kern /\ sent' = sent /\ pool' = p /\ Answer(1)
      \/ /\ b # NoBuffer /\ p.pkt[b] # Blank /\ sent' = [sent EXCEPT ![fd] = p.pkt[b]]
         /\ kern' = kern /\ notify_read(q)
      \/ sent' = sent /\ kern' = FillUp(UdpSock) /\ pool' = p /\ Answer(1)
      \/ kern' = kern /\ sent' = sent /\ pool' = q /\ Answer(0)
  BY DEF UdpWrite
<1>4. fd # UR /\ Top.pc \notin Loops
  BY <1>1 DEF Ranked, Posted, Loops
<1>5. kern' = kern \/ kern' = FillUp(UdpSock) => kern'.sock = kern.sock
  BY IInvIs, FilesAre, Filling
<1> HIDE DEF fd, p, q
<1>6. Called
  BY <1>1, <1>2, <1>3, <1>5, StillCalled
<1> QED
  BY <1>1, <1>2, <1>3, <1>4, <1>6, WriterRanks DEF p, q

LEMMA TcpCoNoneRanks == ASSUME IInv, Ranked, TcpCoNone PROVE Ranked'
<1>1. stack # <<>> /\ fate = "run" /\ Top.pc = "tcp-listen"
  BY NamesAre, RunningIs DEF TcpCoNone
<1>2. /\ reg' = reg /\ kern' = kern /\ sent' = sent /\ pool' = pool /\ stamp' = stamp
      /\ algo' = algo /\ Answer(1)
  BY DEF TcpCoNone, app_ctx
<1>3. Called
  BY <1>1, <1>2, StillCalled
<1>4. Steps
  BY <1>2, <1>3, AnswerSteps
<1>5. Gentle(pool, sent, pool', sent') /\ Keep(pool, pool', UR)
  BY <1>2, ThinSame, ThinGentle DEF Keep
<1> QED
  BY <1>1, <1>2, <1>4, <1>5, SameAhead, CallbackRanks DEF Ranked, Loops

-----------------------------------------------------------------------------
(* The steps of the loops over the links.                                  *)

(* f goes on where e was, e having sent to `to' or found nobody there.     *)
Proceeds(e, f, to) ==
  /\ f.pc = e.pc /\ f.bp = e.bp
  /\ Open(f) => Few(f) /\ OneToGo(f) /\ ~ OneToGo(e)
  /\ \A g \in Fds : Ahead(reg, f, g) => Ahead(reg, e, g) /\ g # to

LEMMA LoopTop ==
  ASSUME IInv, Ranked, fate = "run", stack # <<>>, Top.pc \in Loops, Narrow
  PROVE  /\ Calm(Tail(stack)) /\ stack \in Seq(Frame) /\ Tail(stack) \in Seq(Frame)
         /\ InOrder(pool, sent, stamp)
         /\ Open(Top) => /\ Few(Top)
                         /\ Held(pool, sent, reg, stamp, Top) \/ Spent(pool, Top)
<1>1. stack \in Seq(Frame)
  BY IInvIs DEF Nested
<1>2. Spreading(pool, sent, reg, stamp, stack) /\ InOrder(pool, sent, stamp)
  BY DEF Ranked
<1> QED
  BY <1>1, <1>2, LoopCalm, TopIs DEF Top

LEMMA CrashRanks ==
  ASSUME Ranked, fate' # "run", pool' = pool, reg' = reg, sent' = sent, stamp' = stamp,
         algo' = algo
  PROVE  Ranked'
<1>1. Narrow' = Narrow
  BY DEF Narrow
<1> QED
  BY <1>1 DEF Ranked

LEMMA LinkRanks ==
  ASSUME IInv, Ranked, fate = "run", stack # <<>>, Top.pc \in Loops, Open(Top),
         Top.bp \in Buffers, reg' = reg, sent' = sent, stamp' = stamp, algo' = algo,
         pool.free # <<>>, NEW to \in Links, Ahead(reg, Top, to),
         pool' = dup_buffer_tow(pool, Top.bp, to),
         NEW f \in Frame, Few(Top) => Proceeds(Top, f, to),
         NEW g \in Frame, g.pc \notin Loops, stack' = <<g>> \o (<<f>> \o Tail(stack))
  PROVE  Ranked'
<1>1. Narrow' = Narrow /\ Posted(reg')
  BY DEF Narrow, Ranked
<1>2. /\ Sound(pool) /\ to \in Fds /\ sent \in [Fds -> Packets] /\ stamp \in Nat
      /\ UR \in Fds
  BY IInvIs, NumbersAre DEF Links
<1>3. /\ \A h \in Fds \ {to} : Thin(pool, sent, pool', sent, h)
      /\ \A h \in Fds : Keep(pool, pool', h)
      /\ Extends(pool, sent, pool', sent, to, pool.pkt[Top.bp])
  <2> DEFINE b == Top.bp
  <2>1. b \in Buffers /\ pool' = dup_buffer_tow(pool, b, to)
    OBVIOUS
  <2> HIDE DEF b
  <2>2. /\ \A h \in Fds \ {to} : Thin(pool, sent, pool', sent, h)
        /\ \A h \in Fds : Keep(pool, pool', h)
        /\ Extends(pool, sent, pool', sent, to, pool.pkt[b])
    BY <1>2, <2>1, DupToWriteThins
  <2> QED
    BY <2>2 DEF b
<1>4. ASSUME Narrow
      PROVE  InOrder(pool', sent, stamp) /\ Spreading(pool', sent, reg, stamp, stack')
  <2>1. /\ Calm(Tail(stack)) /\ Tail(stack) \in Seq(Frame) /\ InOrder(pool, sent, stamp)
        /\ Few(Top) /\ (Held(pool, sent, reg, stamp, Top) \/ Spent(pool, Top))
    BY <1>4, LoopTop
  <2>2. Proceeds(Top, f, to)
    BY <2>1
  <2> DEFINE x == pool.pkt[Top.bp]
  <2>3. x # Blank => x = stamp /\ Below(pool, sent, to, x)
    BY <1>2, <2>1 DEF Held, Spent
  <2>4. InOrder(pool', sent, stamp)
    <3> HIDE DEF x
    <3>1. Extends(pool, sent, pool', sent, to, x)
      BY <1>3 DEF x
    <3>2. stamp <= stamp
      BY <1>2
    <3> QED
      BY <1>2, <1>3, <2>1, <2>3, <3>1, <3>2, NextInOrder
  <2> DEFINE t == <<f>> \o Tail(stack)
             u == <<g>> \o t
  <2>5. t \in Seq(Frame) /\ Head(t) = f /\ Tail(t) = Tail(stack)
    BY <2>1, PushedIs
  <2> HIDE DEF t
  <2>6. Head(u) = g /\ Tail(u) = t
    BY <2>5, PushedIs
  <2>7. Calm(u) <=> Calm(t)
    BY <2>5, CalmIs, NotLoop
  <2>8. Calm(t) <=> ~ Open(f)
    BY <2>1, CalmIs DEF t
  <2>9. stack' = u
    BY DEF t
  <2> HIDE DEF u
  <2>10. CASE ~ Open(f)
    BY <2>4, <2>7, <2>8, <2>9, <2>10 DEF Spreading
  <2>11. CASE Open(f)
    <3>1. Few(f) /\ OneToGo(f) /\ ~ OneToGo(Top) /\ f.bp = Top.bp
      BY <2>2, <2>11 DEF Proceeds
    <3>2. Held(pool, sent, reg, stamp, Top)
      BY <2>1, <3>1 DEF Spent
    <3>3. f.bp # NoBuffer /\ pool'.used[UR] = f.bp /\ pool'.pkt[f.bp] = stamp
      BY <1>2, <1>3, <3>1, <3>2 DEF Held, Keep
    <3>4. ASSUME NEW h \in Fds, Ahead(reg, f, h) PROVE Below(pool', sent, h, stamp)
      <4>1. Ahead(reg, Top, h) /\ h # to
        BY <2>2, <3>4 DEF Proceeds
      <4>2. Below(pool, sent, h, stamp) /\ Thin(pool, sent, pool', sent, h)
        BY <1>3, <3>2, <4>1 DEF Held
      <4> QED
        BY <4>2, ThinMilder DEF Milder
    <3>5. Held(pool', sent, reg, stamp, f)
      BY <3>3, <3>4 DEF Held
    <3>6. Head(stack') = g /\ Head(Tail(stack')) = f /\ Calm(Tail(Tail(stack')))
      BY <2>1, <2>5, <2>6, <2>9
    <3> QED
      BY <2>4, <3>1, <3>5, <3>6 DEF Spreading
  <2> QED
    BY <2>10, <2>11
<1> QED
  BY <1>1, <1>4 DEF Ranked

(* The link is not there. *)
LEMMA SkipRanks ==
  ASSUME IInv, Ranked, fate = "run", stack # <<>>, Top.pc \in Loops, Open(Top),
         reg' = reg, sent' = sent, stamp' = stamp, algo' = algo, pool' = pool,
         NEW f \in Frame, Few(Top) => Proceeds(Top, f, NoFd), stack' = <<f>> \o Tail(stack)
  PROVE  Ranked'
<1>1. Narrow' = Narrow
  BY DEF Narrow
<1>2. ASSUME Narrow PROVE Spreading(pool, sent, reg, stamp, stack')
  <2>1. /\ Calm(Tail(stack)) /\ Tail(stack) \in Seq(Frame)
        /\ Few(Top) /\ (Held(pool, sent, reg, stamp, Top) \/ Spent(pool, Top))
    BY <1>2, LoopTop
  <2>2. Proceeds(Top, f, NoFd)
    BY <2>1
  <2> DEFINE t == <<f>> \o Tail(stack)
  <2>3. Head(t) = f /\ Tail(t) = Tail(stack)
    BY <2>1, PushedIs
  <2>4. Calm(t) <=> ~ Open(f)
    BY <2>1, CalmIs
  <2>5. stack' = t
    OBVIOUS
  <2> HIDE DEF t
  <2>6. CASE ~ Open(f)
    BY <2>4, <2>5, <2>6 DEF Spreading
  <2>7. CASE Open(f)
    <3>1. Few(f) /\ ~ OneToGo(Top) /\ f.bp = Top.bp /\ f.pc = Top.pc
      BY <2>2, <2>7 DEF Proceeds
    <3>2. Held(pool, sent, reg, stamp, Top)
      BY <2>1, <3>1 DEF Spent
    <3>3. Held(pool, sent, reg, stamp, f)
      BY <2>2, <3>1, <3>2 DEF Held, Proceeds
    <3> QED
      BY <2>1, <2>3, <2>5, <3>1, <3>3 DEF Spreading
  <2> QED
    BY <2>6, <2>7
<1> QED
  BY <1>1, <1>2 DEF Ranked

LEMMA Dup2LinkRanks == ASSUME IInv, Ranked, Dup2Link PROVE Ranked'
<1> DEFINE l  == reg.list["tcp-write"]
           to == l[Top.i]
           f  == [Top EXCEPT !.i = Top.i + 1]
           g  == Callback(reg, to, FALSE)
<1>1. /\ stack # <<>> /\ fate = "run" /\ Top.pc = "dup2" /\ Top \in Frame
      /\ Waits(Top) /\ Top.bp \in Buffers
  BY LoopRunningIs DEF Dup2Link, Loops
<1>2. reg' = reg /\ kern' = kern /\ sent' = sent /\ stamp' = stamp /\ algo' = algo
  BY DEF Dup2Link, app_ctx
<1>3. Wired(reg, kern)
  BY IInvIs
<1>4. Called
  BY <1>1, <1>2, StillCalled
<1>5. CASE pool.free = <<>>
  <2>1. fate' = "crash" /\ pool' = pool
    BY <1>5 DEF Dup2Link
  <2> QED
    BY <1>2, <2>1, CrashRanks
<1>6. CASE pool.free # <<>>
  <2>1. /\ pool' = dup_buffer_tow(pool, Top.bp, to)
        /\ stack' = <<g, f>> \o Tail(stack)
        /\ Top.i <= Len(l) /\ Top.i <= NPorts
    BY <1>6 DEF Dup2Link
  <2>2. Top.i \in Nat /\ Top.i > 0
    BY <1>1 DEF Waits, Frame
  <2>3. l \in Seq(Fds)
    BY <1>3, NamesAre, WiredIs
  <2>4. Top.i \in 1 .. Len(l)
    BY <2>1, <2>2, <2>3
  <2>5. to \in Fds /\ IsRegistered(reg, to) /\ reg.info[to].cat = "tcp-write"
    BY <1>3, <2>4, NamesAre, Leads
  <2>6. f \in Frame /\ f.pc = "dup2" /\ f.bp = Top.bp /\ f.i = Top.i + 1
    BY <1>1, <2>2 DEF Frame
  <2>7. g \in Frame /\ g.pc \notin Loops
    BY <1>3, <2>5, CallbackRuns DEF Callback, Loops
  <2>8. stack' = <<g>> \o (<<f>> \o Tail(stack))
    <3>1. Tail(stack) \in Seq(Frame)
      BY <1>4, CalledIs DEF Waiting
    <3> HIDE DEF g, f, to, l
    <3>2. <<g, f>> \o Tail(stack) = <<g>> \o (<<f>> \o Tail(stack))
      BY <2>6, <2>7, <3>1, TwoPushed
    <3> QED
      BY <2>1, <3>2
  <2>9. to \in Links
    <3>1. to # UR
      BY <2>5 DEF Ranked, Posted
    <3>2. to # UW
      BY <1>3, <2>5, WiredIs
    <3> QED
      BY <2>5, <3>1, <3>2 DEF Links
  <2>10. Open(Top) /\ Top.pc \in Loops
    BY <1>1, <2>1 DEF Open, Loops
  <2>11. Ahead(reg, Top, to)
    <3>1. Top.i >= Top.i
      BY <2>2
    <3> QED
      BY <1>1, <2>4, <3>1 DEF Ahead
  <2>12. Few(Top) => Proceeds(Top, f, to)
    <3> SUFFICES ASSUME NPorts <= 2 PROVE Proceeds(Top, f, to)
      BY <1>1 DEF Few
    <3>1. NPorts \in Nat
      BY ProxyAssumption
    <3>2. Open(f) => Few(f) /\ OneToGo(f) /\ ~ OneToGo(Top)
      BY <1>1, <2>2, <2>6, <3>1 DEF Open, Few, OneToGo
    <3>3. ASSUME NEW h \in Fds, Ahead(reg, f, h) PROVE Ahead(reg, Top, h) /\ h # to
      <4>1. PICK k \in 1 .. Len(l) : k >= Top.i + 1 /\ h = l[k]
        BY <2>6, <3>3 DEF Ahead
      <4>2. k >= Top.i /\ k # Top.i
        BY <2>2, <4>1
      <4>3. l[k] # l[Top.i]
        <5>1. ListsAgree(reg)
          BY <1>3, WiredIs DEF RegistryInv
        <5> QED
          BY <2>3, <2>4, <4>1, <4>2, <5>1, NamesAre DEF ListsAgree, Distinct
      <4> QED
        BY <1>1, <4>1, <4>2, <4>3 DEF Ahead
    <3> QED
      BY <1>1, <2>6, <3>2, <3>3 DEF Proceeds
  <2> HIDE DEF f, g, to, l
  <2> QED
    BY <1>1, <1>2, <1>6, <2>1, <2>6, <2>7, <2>8, <2>9, <2>10, <2>11, <2>12, LinkRanks
<1> QED
  BY <1>5, <1>6

LEMMA LightningSendRanks == ASSUME IInv, Ranked, LightningSend PROVE Ranked'
<1> DEFINE l  == Top.links
           to == FromUrl(reg, <<"tcp-write", Head(Top.links)>>)
           f  == [Top EXCEPT !.links = Tail(Top.links)]
           g  == Callback(reg, to, FALSE)
<1>1. /\ stack # <<>> /\ fate = "run" /\ Top.pc = "lightning" /\ Top \in Frame
      /\ Waits(Top) /\ Top.bp \in Buffers
  BY LoopRunningIs DEF LightningSend, Loops
<1>2. reg' = reg /\ kern' = kern /\ sent' = sent /\ stamp' = stamp /\ algo' = algo
  BY DEF LightningSend, app_ctx
<1>3. Wired(reg, kern)
  BY IInvIs
<1>4. l \in Seq(Ports) /\ l # <<>>
  BY <1>1 DEF Frame, LightningSend
<1>5. /\ Head(l) \in Ports /\ Tail(l) \in Seq(Ports) /\ Len(l) \in Nat /\ Len(l) > 0
      /\ Head(l) = l[1] /\ Len(Tail(l)) = Len(l) - 1
      /\ \A k \in 1 .. Len(Tail(l)) : Tail(l)[k] = l[k + 1]
  BY <1>4
<1>6. f \in Frame /\ f.pc = "lightning" /\ f.bp = Top.bp /\ f.links = Tail(l)
  BY <1>1, <1>5 DEF Frame
<1>7. \/ to = NoFd /\ stack' = <<f>> \o Tail(stack) /\ pool' = pool
      \/ to # NoFd /\ pool.free = <<>> /\ fate' = "crash" /\ pool' = pool
      \/ /\ to # NoFd /\ pool.free # <<>> /\ pool' = dup_buffer_tow(pool, Top.bp, to)
         /\ stack' = <<g>> \o (<<f>> \o Tail(stack))
  BY DEF LightningSend
<1>8. to # NoFd => /\ to \in Fds /\ IsRegistered(reg, to)
                   /\ reg.info[to].cat = "tcp-write"
                   /\ reg.info[to].url = <<"tcp-write", l[1]>>
  <2>1. <<"tcp-write", Head(l)>> \in Urls
    BY <1>5, NamesAre, NumbersAre
  <2> QED
    BY <1>3, <1>5, <2>1, Leads
<1>9. Open(Top) /\ Top.pc \in Loops
  BY <1>1, <1>4 DEF Open, Loops
<1>10. Few(Top) => Proceeds(Top, f, to)
  <2> SUFFICES ASSUME Len(l) <= 2, Len(l) = 2 => l[1] # l[2] PROVE Proceeds(Top, f, to)
    BY <1>1 DEF Few
  <2>1. Open(f) => Few(f) /\ OneToGo(f) /\ ~ OneToGo(Top)
    <3> HIDE DEF l, f
    <3>1. f.links # <<>> => Len(f.links) = 1 /\ Len(l) = 2
      <4>1. f.links \in Seq(Ports) /\ Len(f.links) = Len(l) - 1
        BY <1>5, <1>6
      <4>2. Len(f.links) = 0 => f.links = <<>>
        BY <4>1, NoneIs
      <4>3. Len(f.links) = 0 \/ (Len(f.links) = 1 /\ Len(l) = 2)
        <5>1. \A a, b \in Nat : b > 0 /\ b <= 2 /\ a = b - 1 => a = 0 \/ (a = 1 /\ b = 2)
          OBVIOUS
        <5>2. Len(f.links) \in Nat
          BY <4>1
        <5> DEFINE a == Len(f.links)
                   b == Len(l)
        <5>3. a \in Nat /\ b \in Nat /\ b > 0 /\ b <= 2 /\ a = b - 1
          BY <1>5, <4>1, <5>2
        <5> HIDE DEF a, b
        <5>4. a = 0 \/ (a = 1 /\ b = 2)
          BY <5>1, <5>3
        <5> QED
          BY <5>4 DEF a, b
      <4> QED
        BY <4>2, <4>3
    <3>2. Top.links = l
      BY DEF l
    <3> QED
      BY <1>1, <1>6, <3>1, <3>2 DEF Open, Few, OneToGo
  <2>2. ASSUME NEW h \in Fds, Ahead(reg, f, h) PROVE Ahead(reg, Top, h) /\ h # to
    <3>1. h # NoFd /\ \E k \in 1 .. Len(Tail(l)) : h = FromUrl(reg, <<"tcp-write", Tail(l)[k]>>)
      BY <1>6, <2>2 DEF Ahead
    <3>2. PICK k \in 1 .. Len(Tail(l)) : h = FromUrl(reg, <<"tcp-write", Tail(l)[k]>>)
      BY <3>1
    <3>3. k = 1 /\ 2 \in 1 .. Len(l) /\ Len(l) = 2 /\ Tail(l)[k] = l[2] /\ l[2] \in Ports
      BY <1>4, <1>5, <3>2
    <3>4. h = FromUrl(reg, <<"tcp-write", l[2]>>)
      BY <3>2, <3>3
    <3>5. Ahead(reg, Top, h)
      BY <1>1, <3>1, <3>3, <3>4 DEF Ahead
    <3>6. reg.info[h].url = <<"tcp-write", l[2]>>
      <4>1. <<"tcp-write", l[2]>> \in Urls
        BY <3>3, NamesAre, NumbersAre
      <4> QED
        BY <1>3, <3>1, <3>4, <4>1, Leads
    <3>7. h # to
      <4>1. <<"tcp-write", l[1]>> # <<"tcp-write", l[2]>>
        BY <3>3
      <4> HIDE DEF l, to
      <4> QED
        BY <1>8, <3>1, <3>6, <4>1
    <3> QED
      BY <3>5, <3>7
  <2> QED
    BY <1>1, <1>6, <2>1, <2>2 DEF Proceeds
<1>11. to # NoFd => /\ to \in Links /\ Ahead(reg, Top, to)
                    /\ g \in Frame /\ g.pc \notin Loops
  <2> SUFFICES ASSUME to # NoFd
               PROVE  /\ to \in Links /\ Ahead(reg, Top, to)
                      /\ g \in Frame /\ g.pc \notin Loops
    OBVIOUS
  <2>1. g \in Frame /\ g.pc \notin Loops
    BY <1>3, <1>8, CallbackRuns DEF Callback, Loops
  <2>2. to # UR
    BY <1>8 DEF Ranked, Posted
  <2>3. to # UW
    BY <1>3, <1>8, WiredIs
  <2>4. 1 \in 1 .. Len(l)
    BY <1>5
  <2>5. Ahead(reg, Top, to)
    BY <1>1, <1>5, <2>4 DEF Ahead
  <2> QED
    BY <1>8, <2>1, <2>2, <2>3, <2>5 DEF Links
<1> HIDE DEF to, f, l, g
<1>12. CASE to = NoFd /\ stack' = <<f>> \o Tail(stack) /\ pool' = pool
  BY <1>1, <1>2, <1>6, <1>9, <1>10, <1>12, SkipRanks
<1>13. CASE to # NoFd /\ pool.free = <<>> /\ fate' = "crash" /\ pool' = pool
  BY <1>2, <1>13, CrashRanks
<1>14. CASE /\ to # NoFd /\ pool.free # <<>> /\ pool' = dup_buffer_tow(pool, Top.bp, to)
            /\ stack' = <<g>> \o (<<f>> \o Tail(stack))
  BY <1>1, <1>2, <1>6, <1>9, <1>10, <1>11, <1>14, LinkRanks
<1> QED
  BY <1>7, <1>12, <1>13, <1>14

LEMMA DoneRanks ==
  ASSUME IInv, Ranked, stack # <<>>, fate = "run", Top.fd \in Fds, Top.pc \in Loops,
         reg' = reg, kern' = kern, sent' = sent, stamp' = stamp, algo' = algo,
         pool' = mv_buffer_rtof(pool, Top.fd), Answer(0)
  PROVE  Ranked'
<1>1. Called
  BY StillCalled
<1>2. Steps
  BY <1>1, AnswerSteps
<1>3. Narrow' = Narrow /\ Posted(reg') /\ Sound(pool)
  BY IInvIs DEF Narrow, Ranked
<1>4. \A g \in Fds : Thin(pool, sent, pool', sent', g)
  BY <1>3, ReadToFreeThins
<1>5. ASSUME Narrow PROVE InOrder(pool', sent', stamp') /\ Calm(stack')
  <2>1. Calm(Tail(stack)) /\ Tail(stack) \in Seq(Frame) /\ InOrder(pool, sent, stamp)
    BY <1>5, LoopTop
  <2>2. InOrder(pool', sent', stamp')
    BY <1>4, <2>1, ThinGentle, OrderStays
  <2>3. ASSUME NEW f \in Frame, f.pc \notin Loops PROVE Calm(<<f>> \o Tail(stack))
    BY <2>1, <2>3, CalmIs, NotLoop
  <2>4. Calm(stack')
    BY <1>2, <2>1, <2>3, Zenon DEF Steps
  <2> QED
    BY <2>2, <2>4
<1> QED
  BY <1>3, <1>5 DEF Ranked, Spreading

LEMMA Dup2DoneRanks == ASSUME IInv, Ranked, Dup2Done PROVE Ranked'
<1>1. stack # <<>> /\ fate = "run" /\ Top.fd \in Fds /\ Top.pc \in Loops
  BY LoopRunningIs DEF Dup2Done, Loops
<1>2. /\ reg' = reg /\ kern' = kern /\ sent' = sent /\ stamp' = stamp /\ algo' = algo
      /\ pool' = mv_buffer_rtof(pool, Top.fd) /\ Answer(0)
  BY DEF Dup2Done, app_ctx
<1> QED
  BY <1>1, <1>2, DoneRanks

LEMMA LightningDoneRanks == ASSUME IInv, Ranked, LightningDone PROVE Ranked'
<1>1. stack # <<>> /\ fate = "run" /\ Top.fd \in Fds /\ Top.pc \in Loops
  BY LoopRunningIs DEF LightningDone, Loops
<1>2. /\ reg' = reg /\ kern' = kern /\ sent' = sent /\ stamp' = stamp /\ algo' = algo
      /\ pool' = mv_buffer_rtof(pool, Top.fd) /\ Answer(0)
  BY DEF LightningDone
<1> QED
  BY <1>1, <1>2, DoneRanks

-----------------------------------------------------------------------------
(* The datagram that has been read, the (n + 1)th, goes to the algorithm.   *)

Handed(n) ==
  /\ fate' = "run" => Spreading(pool', sent, reg, n + 1, stack')
  /\ InOrder(pool', sent, n + 1)

LEMMA LinkIs ==
  ASSUME NEW r, NEW k, Wired(r, k), Posted(r), NEW g \in Fds, IsRegistered(r, g),
         r.info[g].cat = "tcp-write"
  PROVE  g \in Links
<1>1. g # UR /\ g # UW
  BY WiredIs DEF Posted
<1> QED
  BY <1>1 DEF Links

LEMMA InOrderMore ==
  ASSUME NEW p, Sound(p), NEW s \in [Fds -> Packets], NEW n \in Nat, InOrder(p, s, n)
  PROVE  InOrder(p, s, n + 1)
<1>1. n + 1 \in Nat /\ (n + 1) + 1 \in Nat /\ n + 1 <= (n + 1) + 1
  OBVIOUS
<1> QED
  BY <1>1, BelowMore DEF InOrder, Links

(* The call f of dup2 or of lightning begins. *)
LEMMA LoopHanded ==
  ASSUME Called, reg' = reg, NEW n \in Nat, NEW q, Sound(q), sent \in [Fds -> Packets],
         InOrder(q, sent, n), Calm(Tail(stack)), Posted(reg),
         q.used[UR] # NoBuffer, q.pkt[q.used[UR]] = n + 1,
         \A g \in Fds : Thin(q, sent, pool', sent, g) /\ Keep(q, pool', g),
         NEW f \in Frame, f.pc \in Loops, f.bp = q.used[UR], Few(f), TailCall(f)
  PROVE  Handed(n)
<1>1. Wired(reg, kern') /\ UR \in Fds
  BY NumbersAre DEF Called
<1>2. InOrder(q, sent, n + 1)
  BY InOrderMore
<1>3. Gentle(q, sent, pool', sent)
  BY ThinGentle
<1>4. InOrder(pool', sent, n + 1)
  BY <1>2, <1>3, OrderStays
<1>5. Held(q, sent, reg, n + 1, f)
  <2>1. ASSUME NEW g \in Fds, Ahead(reg, f, g) PROVE Below(q, sent, g, n + 1)
    <3>1. g \in Links
      BY <1>1, <2>1, AheadIs
    <3> QED
      BY <3>1 DEF InOrder
  <2> QED
    BY <2>1 DEF Held
<1>6. Held(pool', sent, reg, n + 1, f)
  BY <1>1, <1>3, <1>5, HeldStays, SameAhead
<1>7. Head(stack') = f /\ Tail(stack') = Tail(stack)
  <2>1. Tail(stack) \in Seq(Frame)
    BY CalledIs DEF Waiting
  <2>2. Head(<<f>> \o Tail(stack)) = f /\ Tail(<<f>> \o Tail(stack)) = Tail(stack)
    BY <2>1, PushedIs
  <2>3. stack' = <<f>> \o Tail(stack)
    BY DEF TailCall
  <2> QED
    BY <2>2, <2>3, Zenon
<1> QED
  BY <1>4, <1>6, <1>7 DEF Handed, Spreading

LEMMA CalmHanded ==
  ASSUME Called, NEW n, Calm(Tail(stack)), InOrder(pool', sent, n + 1), Steps
  PROVE  Handed(n)
<1>1. Tail(stack) \in Seq(Frame)
  BY CalledIs DEF Waiting
<1>2. ASSUME NEW f \in Frame, f.pc \notin Loops PROVE Calm(<<f>> \o Tail(stack))
  BY <1>1, <1>2, CalmIs, NotLoop
<1>3. Calm(stack')
  BY <1>2, Zenon DEF Steps
<1> QED
  BY <1>3 DEF Handed, Spreading

LEMMA NaiveHanded ==
  ASSUME Called, reg' = reg, NEW n \in Nat, NEW q, Sound(q), sent \in [Fds -> Packets],
         InOrder(q, sent, n), Calm(Tail(stack)), Posted(reg),
         q.used[UR] # NoBuffer, q.pkt[q.used[UR]] = n + 1, NaiveOnDatagram(q, UR)
  PROVE  Handed(n)
<1> DEFINE l  == reg.list["tcp-write"]
           to == l[1]
<1>1. Wired(reg, kern') /\ UR \in Fds
  BY NumbersAre DEF Called
<1>2. InOrder(q, sent, n + 1)
  BY InOrderMore
<1>3. CASE l = <<>>
  <2>1. pool' = mv_buffer_rtof(q, UR) /\ Answer(1)
    BY <1>3 DEF NaiveOnDatagram, mv_buffer_wtof
  <2>2. InOrder(pool', sent, n + 1)
    BY <1>1, <1>2, <2>1, ReadToFreeThins, ThinGentle, OrderStays
  <2> QED
    BY <2>1, <2>2, AnswerSteps, CalmHanded
<1>4. CASE l # <<>>
  <2>1. pool' = mv_buffer_rtow(q, UR, to) /\ TailCall(Callback(reg, to, TRUE))
    BY <1>4 DEF NaiveOnDatagram
  <2>2. l \in Seq(Fds)
    BY <1>1, NamesAre, WiredIs
  <2>3. 1 \in 1 .. Len(l)
    BY <1>4, <2>2
  <2>4. to \in Fds /\ IsRegistered(reg, to) /\ reg.info[to].cat = "tcp-write"
    BY <1>1, <2>3, NamesAre, Leads
  <2>5. to \in Links /\ to # UR
    BY <1>1, <2>4, LinkIs DEF Links
  <2> HIDE DEF to
  <2>6. /\ \A g \in Fds \ {to} : Thin(q, sent, pool', sent, g)
        /\ Extends(q, sent, pool', sent, to, n + 1)
    BY <1>1, <2>1, <2>4, <2>5, ReadToWriteThins
  <2>7. n + 1 \in Nat /\ n <= n + 1 /\ Below(q, sent, to, n + 1)
    BY <2>5 DEF InOrder
  <2> DEFINE m == n + 1
  <2>8. InOrder(pool', sent, m)
    <3>1. m \in Nat /\ n <= m /\ Below(q, sent, to, m) /\ Extends(q, sent, pool', sent, to, m)
      BY <2>6, <2>7
    <3> HIDE DEF m
    <3> QED
      BY <2>5, <2>6, <3>1, NextInOrder
  <2>9. Steps
    BY <2>1, <2>4, CallbackSteps
  <2> QED
    BY <2>8, <2>9, CalmHanded
<1> QED
  BY <1>3, <1>4

LEMMA Dup2Handed ==
  ASSUME Called, reg' = reg, NEW n \in Nat, NEW q, Sound(q), sent \in [Fds -> Packets],
         InOrder(q, sent, n), Calm(Tail(stack)), Posted(reg), NPorts <= 2,
         q.used[UR] # NoBuffer, q.pkt[q.used[UR]] = n + 1, Dup2OnDatagram(q, UR)
  PROVE  Handed(n)
<1> DEFINE f == [pc |-> "dup2", fd |-> UR, bp |-> q.used[UR], i |-> 1, links |-> <<>>,
                 zero |-> Top.zero]
<1>1. pool' = q /\ TailCall(f)
  BY DEF Dup2OnDatagram
<1>2. q.used[UR] \in Buffers /\ <<>> \in Seq(Ports) /\ Top.zero \in BOOLEAN
  <2>1. UR \in Fds /\ Top \in Frame /\ <<>> \in Seq(Ports)
    BY CalledIs, NumbersAre
  <2> QED
    BY <2>1, SoundIs DEF Frame
<1>3. f \in Frame /\ f.pc \in Loops /\ f.bp = q.used[UR] /\ Few(f)
  <2>1. UR \in Fds /\ f.pc = "dup2" /\ f.i = 1 /\ f.bp = q.used[UR]
    BY NumbersAre
  <2>2. f \in Frame
    BY <1>2, <2>1 DEF Frame
  <2> HIDE DEF f
  <2> QED
    BY <2>1, <2>2 DEF Few, Loops
<1> HIDE DEF f
<1>4. \A g \in Fds : Thin(q, sent, pool', sent, g) /\ Keep(q, pool', g)
  BY <1>1, ThinSame DEF Keep
<1> QED
  BY <1>1, <1>3, <1>4, LoopHanded

LEMMA LightningHanded ==
  ASSUME Called, reg' = reg, NEW n \in Nat, NEW q, Sound(q), sent \in [Fds -> Packets],
         InOrder(q, sent, n), Calm(Tail(stack)), Posted(reg), uniq_pkt_sent_id \in Nat,
         fate = "run",
         q.used[UR] # NoBuffer, q.pkt[q.used[UR]] = n + 1, LightningOnDatagram(q, UR)
  PROVE  Handed(n)
<1>1. CASE q.free # <<>> /\ HasApp(q, uniq_pkt_sent_id)
  <2>1. fate' = "exit" /\ pool' = q
    BY <1>1 DEF LightningOnDatagram
  <2> QED
    BY <2>1, InOrderMore DEF Handed
<1>2. CASE ~ (q.free # <<>> /\ HasApp(q, uniq_pkt_sent_id))
  <2> DEFINE u   == IF q.free = <<>> THEN q
                    ELSE dup_buffer_toa(q, q.used[UR], uniq_pkt_sent_id)
             old == uniq_pkt_sent_id - NPorts
             Chosen == {<<>>} \cup {<<l>> : l \in Ports} \cup {<<g, h>> : g \in Ports, h \in Ports}
             f(links) == [pc |-> "lightning", fd |-> UR, bp |-> q.used[UR], i |-> 0,
                          links |-> links, zero |-> Top.zero]
  <2>1. /\ pool' = IF HasApp(u, old) THEN mv_buffer_atof(u, old) ELSE u
        /\ \E links \in Chosen : (Len(links) = 2 => links[1] # links[2]) /\ TailCall(f(links))
    BY <1>2 DEF LightningOnDatagram
  <2>2. q.used[UR] \in Buffers /\ UR \in Fds
    BY SoundIs, NumbersAre
  <2>3. Sound(u)
    BY <1>2, <2>2, DupToApp
  <2>4. \A g \in Fds : Thin(q, sent, u, sent, g) /\ Keep(q, u, g)
    <3>1. \A g \in Fds : Thin(q, sent, q, sent, g) /\ Keep(q, q, g)
      BY ThinSame DEF Keep
    <3> QED
      BY <3>1, DupToAppThins
  <2>5. PICK links \in Chosen : (Len(links) = 2 => links[1] # links[2]) /\ TailCall(f(links))
    BY <2>1
  <2>6. links \in Seq(Ports) /\ Len(links) <= 2
    <3>1. <<>> \in Seq(Ports) /\ (\A l \in Ports : <<l>> \in Seq(Ports))
          /\ \A g, h \in Ports : <<g, h>> \in Seq(Ports)
      OBVIOUS
    <3>2. links = <<>> \/ (\E l \in Ports : links = <<l>>)
          \/ \E g, h \in Ports : links = <<g, h>>
      OBVIOUS
    <3>3. Len(<<>>) <= 2 /\ (\A l \in Ports : Len(<<l>>) <= 2)
          /\ \A g, h \in Ports : Len(<<g, h>>) <= 2
      OBVIOUS
    <3> HIDE DEF Chosen, f, u, old
    <3>4. CASE links = <<>>
      BY <3>1, <3>3, <3>4
    <3>5. CASE \E l \in Ports : links = <<l>>
      BY <3>1, <3>3, <3>5
    <3>6. CASE \E g, h \in Ports : links = <<g, h>>
      BY <3>1, <3>3, <3>6
    <3> QED
      BY <3>2, <3>4, <3>5, <3>6
  <2> HIDE DEF u, old, Chosen
  <2>7. Top.zero \in BOOLEAN
    BY CalledIs DEF Frame
  <2>8. f(links) \in Frame /\ f(links).pc \in Loops /\ f(links).bp = q.used[UR]
    BY <2>2, <2>6, <2>7 DEF Frame, Loops
  <2>9. Few(f(links))
    BY <2>5, <2>6 DEF Few
  <2> HIDE DEF f
  <2>10. \A g \in Fds : Thin(u, sent, pool', sent, g) /\ Keep(u, pool', g)
    <3>1. \A g \in Fds : Thin(u, sent, u, sent, g) /\ Keep(u, u, g)
      BY ThinSame DEF Keep
    <3> QED
      BY <2>1, <2>3, <3>1, AppToFreeThins
  <2>11. \A g \in Fds : Thin(q, sent, pool', sent, g) /\ Keep(q, pool', g)
    BY <2>4, <2>10, ThinThen, KeepThen
  <2> QED
    BY <2>5, <2>8, <2>9, <2>11, LoopHanded
<1> QED
  BY <1>1, <1>2

LEMMA UdpReadRanks == ASSUME IInv, Ranked, UdpRead PROVE Ranked'
<1> DEFINE p  == get_read_buffer(pool, UR)
           b  == p.used[UR]
           q  == FillBuffer(p, UR, stamp + 1)
<1>1. /\ stack # <<>> /\ fate = "run" /\ Top.fd \in Fds /\ Top.pc = "udp-read"
      /\ IsRegistered(reg, Top.fd) /\ reg.info[Top.fd].cat = "udp-read"
  BY NamesAre, RunningIs DEF UdpRead
<1>2. Top.fd = UR /\ Posted(reg) /\ UR \in Fds /\ Top.pc \notin Loops
  BY <1>1 DEF Ranked, Posted, Loops
<1>3. sent' = sent /\ reg' = reg /\ algo' = algo
  BY DEF UdpRead, ReadVars, app_ctx
<1>4. Narrow' = Narrow
  BY <1>3 DEF Narrow
<1>5. \/ /\ kern' = kern /\ stamp' = stamp /\ pool' = p /\ Answer(1)
         /\ b = NoBuffer \/ p.pkt[b] = Blank
      \/ kern' = kern /\ stamp' = stamp /\ pool' = mv_buffer_rtof(p, UR) /\ Answer(0)
      \/ /\ kern.rx[UdpSock] > 0 /\ kern' = Consume(UdpSock) /\ stamp' = stamp
         /\ pool' = p /\ Answer(1) /\ b # NoBuffer /\ p.pkt[b] = Blank
      \/ /\ kern.rx[UdpSock] > 0 /\ kern' = Consume(UdpSock) /\ stamp' = stamp
         /\ b # NoBuffer /\ p.pkt[b] = Blank /\ pool' = mv_buffer_rtof(p, UR) /\ Answer(0)
      \/ /\ b # NoBuffer /\ p.pkt[b] = Blank /\ kern.rx[UdpSock] > 0
         /\ kern' = Consume(UdpSock) /\ stamp' = stamp + 1 /\ on_datagram(q, UR)
  BY <1>2 DEF UdpRead
<1>6. Sound(pool) /\ Sound(p) /\ stack \in Seq(Frame) /\ sent \in [Fds -> Packets]
      /\ stamp \in Nat
  BY <1>2, IInvIs, GetRead DEF Nested
<1>7. kern.rx[UdpSock] > 0 /\ kern' = Consume(UdpSock) => kern'.sock = kern.sock
  BY IInvIs, FilesAre, Consuming
<1>8. \A g \in Fds : Thin(pool, sent, p, sent, g)
  BY <1>2, <1>6, GetReadThins
<1>9. Called
  <2>1. kern'.sock = kern.sock
    BY <1>5, <1>7
  <2> QED
    BY <1>1, <1>3, <2>1, StillCalled
<1> HIDE DEF p
<1>10. /\ \A g \in Fds : Thin(p, sent, mv_buffer_rtof(p, UR), sent, g)
       /\ b # NoBuffer => mv_buffer_rtof(p, UR).pkt[b] = Blank
  BY <1>2, <1>6, ReadToFreeThins
<1>11. ASSUME stamp' = stamp, pool' = p \/ pool' = mv_buffer_rtof(p, UR)
       PROVE  Narrow => InOrder(pool', sent', stamp')
  <2>1. \A g \in Fds : Thin(pool, sent, pool', sent', g)
    BY <1>3, <1>8, <1>10, <1>11, ThinThen
  <2> QED
    BY <1>11, <2>1, ThinGentle, OrderStays DEF Ranked
<1>12. ASSUME Narrow, ~ Calm(Tail(stack))
       PROVE  InOrder(pool', sent', stamp') /\ Spreading(pool', sent', reg', stamp', stack')
  <2> DEFINE e == Head(Tail(stack))
  <2>1. Spreading(pool, sent, reg, stamp, stack)
    BY <1>1, <1>12 DEF Ranked
  <2>2. /\ Tail(stack) \in Seq(Frame) /\ Tail(stack) # <<>> /\ Calm(Tail(Tail(stack)))
        /\ Few(e) /\ OneToGo(e) /\ Held(pool, sent, reg, stamp, e)
        /\ e \in Frame /\ e.pc \in Loops
    BY <1>1, <1>2, <1>6, <1>12, <2>1, CallbackCalm DEF Top
  <2>3. stamp # Blank
    <3>1. /\ kern.rx[UdpSock] \in Nat /\ stamp \in Nat /\ left \in Nat /\ MaxPackets \in Nat
          /\ stamp + left + kern.rx[UdpSock] <= MaxPackets
      BY IInvIs
    <3>2. stamp \in Packets
      BY <3>1, ProxyAssumption
    <3> QED
      BY <3>2, BufferPoolAssumption
  <2>4. e.bp # NoBuffer /\ pool.used[UR] = e.bp /\ pool.pkt[e.bp] = stamp
    BY <2>2 DEF Held
  <2> HIDE DEF e
  <2>5. p = pool
    BY <2>4 DEF p, get_read_buffer
  <2>6. stamp' = stamp /\ pool' = mv_buffer_rtof(p, UR) /\ Answer(0)
    BY <1>5, <2>3, <2>4, <2>5
  <2>7. Len(stack) # 1
    <3>1. Len(Tail(stack)) = Len(stack) - 1 /\ Len(stack) \in Nat
      BY <1>1, <1>6, TopIs
    <3>2. Len(Tail(stack)) = 0 => Tail(stack) = <<>>
      BY <2>2, NoneIs
    <3> QED
      BY <2>2, <3>1, <3>2
  <2>8. stack' = Tail(stack)
    BY <1>9, <2>6, <2>7, AnswerSteps
  <2>9. Spent(pool', e)
    BY <1>10, <2>2, <2>4, <2>5, <2>6 DEF Spent
  <2>10. Spreading(pool', sent', reg', stamp', stack')
    BY <2>2, <2>8, <2>9 DEF Spreading, e
  <2> QED
    BY <1>11, <1>12, <2>6, <2>10
<1>13. ASSUME Narrow, Calm(Tail(stack)), stamp' = stamp, Answer(0) \/ Answer(1)
       PROVE  Spreading(pool', sent', reg', stamp', stack')
  <2>1. Steps
    BY <1>9, <1>13, AnswerSteps
  <2>2. Tail(stack) \in Seq(Frame)
    BY <1>9, CalledIs DEF Waiting
  <2>3. ASSUME NEW f \in Frame, f.pc \notin Loops PROVE Calm(<<f>> \o Tail(stack))
    BY <1>13, <2>2, <2>3, CalmIs, NotLoop
  <2>4. Calm(stack')
    BY <1>13, <2>1, <2>3, Zenon DEF Steps
  <2> QED
    BY <2>4 DEF Spreading
<1>14. ASSUME Narrow, Calm(Tail(stack)), stamp' = stamp + 1, b # NoBuffer, p.pkt[b] = Blank,
              kern.rx[UdpSock] > 0, on_datagram(q, UR)
       PROVE  /\ InOrder(pool', sent', stamp')
              /\ fate' = "run" => Spreading(pool', sent', reg', stamp', stack')
  <2>1. stamp + 1 \in Packets /\ uniq_pkt_sent_id \in Nat /\ algo \in Algos
    <3>1. /\ kern.rx[UdpSock] \in Nat /\ stamp \in Nat /\ left \in Nat /\ MaxPackets \in Nat
          /\ stamp + left + kern.rx[UdpSock] <= MaxPackets /\ uniq_pkt_sent_id \in Nat
          /\ algo \in Algos
      BY IInvIs
    <3> QED
      BY <1>14, <3>1, ProxyAssumption
  <2>2. Sound(q) /\ q.used = p.used
    BY <1>2, <1>6, <1>14, <2>1, Filled DEF b
  <2>3. /\ \A g \in Fds \ {UR} : Thin(p, sent, q, sent, g)
        /\ q.pkt[b] = stamp + 1
    BY <1>2, <1>6, <1>14, FillThins DEF b
  <2>4. q.used[UR] # NoBuffer /\ q.pkt[q.used[UR]] = stamp + 1
    BY <1>14, <2>2, <2>3 DEF b
  <2> HIDE DEF q, b
  <2>5. Gentle(pool, sent, q, sent)
    BY <1>8, <2>3, ThinThen, ThinMilder DEF Gentle, Links
  <2>6. InOrder(q, sent, stamp)
    BY <1>14, <2>5, OrderStays DEF Ranked
  <2>7. Handed(stamp)
    <3>1. algo = "naive" \/ algo = "dup2" \/ algo = "lightning"
      BY <2>1, ProxyAssumption
    <3>2. CASE algo = "naive"
      <4>1. NaiveOnDatagram(q, UR)
        BY <1>14, <3>2 DEF on_datagram
      <4> QED
        BY <1>2, <1>3, <1>6, <1>9, <1>14, <2>2, <2>4, <2>6, <4>1, NaiveHanded
    <3>3. CASE algo = "dup2"
      <4>1. Dup2OnDatagram(q, UR) /\ NPorts <= 2
        BY <1>14, <3>3 DEF on_datagram, Narrow
      <4> QED
        BY <1>2, <1>3, <1>6, <1>9, <1>14, <2>2, <2>4, <2>6, <4>1, Dup2Handed
    <3>4. CASE algo = "lightning"
      <4>1. LightningOnDatagram(q, UR)
        BY <1>14, <3>4 DEF on_datagram
      <4> QED
        BY <1>1, <1>2, <1>3, <1>6, <1>9, <1>14, <2>1, <2>2, <2>4, <2>6, <4>1, LightningHanded
    <3> QED
      BY <3>1, <3>2, <3>3, <3>4
  <2> QED
    BY <1>3, <1>14, <2>7 DEF Handed
<1>15. Narrow => /\ InOrder(pool', sent', stamp')
                 /\ fate' = "run" => Spreading(pool', sent', reg', stamp', stack')
  BY <1>5, <1>11, <1>12, <1>13, <1>14
<1> QED
  BY <1>2, <1>3, <1>4, <1>15 DEF Ranked

-----------------------------------------------------------------------------
(* The steps of the loop, and those that make the first call.              *)

LEMMA LoopRanks ==
  ASSUME Ranked, \A g \in Fds : Thin(pool, sent, pool', sent', g),
         stack' = <<>> \/ \E f : f.pc \notin Loops /\ stack' = <<f>>,
         Posted(reg'), stamp' = stamp, algo' = algo
  PROVE  Ranked'
<1>1. Narrow' = Narrow
  BY DEF Narrow
<1>2. Narrow => InOrder(pool', sent', stamp')
  BY ThinGentle, OrderStays DEF Ranked
<1>3. Calm(stack')
  <2>1. CASE stack' = <<>>
    BY <2>1, CalmEmpty
  <2>2. CASE \E f : f.pc \notin Loops /\ stack' = <<f>>
    <3>1. PICK f : f.pc \notin Loops /\ stack' = <<f>>
      BY <2>2
    <3>2. \A i \in 1 .. Len(<<f>>) : <<f>>[i] = f
      OBVIOUS
    <3>3. Calm(<<f>>)
      BY <3>1, <3>2, NotLoop DEF Calm
    <3> QED
      BY <3>1, <3>3, Zenon
  <2> QED
    BY <2>1, <2>2
<1> QED
  BY <1>1, <1>2, <1>3 DEF Ranked, Spreading

LEMMA PollRanks == ASSUME IInv, Ranked, Poll PROVE Ranked'
<1>1. stack = <<>>
  BY AtLoopIs DEF Poll
<1>2. /\ sent' = sent /\ pool' = pool /\ stack' = stack /\ stamp' = stamp /\ algo' = algo
      /\ reg' = ClearBlacklist(reg)
  BY DEF Poll, app_ctx
<1>3. reg'.info = reg.info
  BY <1>2, IInvIs, WiredIs DEF ClearBlacklist, Registry
<1>4. Posted(reg')
  BY <1>3, PostedSame DEF Ranked
<1> QED
  BY <1>1, <1>2, <1>4, ThinSame, LoopRanks

LEMMA HandleEventRanks == ASSUME IInv, Ranked, HandleEvent PROVE Ranked'
<1>1. stack = <<>>
  BY AtLoopIs DEF HandleEvent
<1>2. sent' = sent /\ pool' = pool /\ reg' = reg /\ stamp' = stamp /\ algo' = algo
  BY DEF HandleEvent, app_ctx
<1>3. PICK e \in batch.cb :
        IF Ignored(reg, e.fd) THEN stack' = stack ELSE stack' = <<Callback(reg, e.fd, FALSE)>>
  BY DEF HandleEvent
<1>4. e.fd \in Fds
  <2>1. batch \in [err : SUBSET Events, cb : SUBSET Events]
    BY IInvIs
  <2> QED
    BY <1>3, <2>1 DEF Events
<1>5. stack' = <<>> \/ \E f : f.pc \notin Loops /\ stack' = <<f>>
  <2>1. CASE Ignored(reg, e.fd)
    BY <1>1, <1>3, <2>1
  <2>2. CASE ~ Ignored(reg, e.fd)
    <3> DEFINE f == Callback(reg, e.fd, FALSE)
    <3>1. IsRegistered(reg, e.fd)
      BY <2>2 DEF Ignored
    <3>2. f.pc \notin Loops
      BY <1>4, <3>1, IInvIs, WiredIs, NamesAre DEF Callback
    <3>3. stack' = <<f>>
      BY <1>3, <2>2
    <3> HIDE DEF f
    <3> QED
      BY <3>2, <3>3
  <2> QED
    BY <2>1, <2>2
<1> QED
  BY <1>2, <1>5, ThinSame, LoopRanks DEF Ranked

LEMMA HandleErrorRanks == ASSUME IInv, Ranked, HandleError PROVE Ranked'
<1>1. stack = <<>> /\ Sound(pool) /\ Posted(reg)
  BY AtLoopIs, IInvIs DEF HandleError, Ranked
<1>2. sent' = sent /\ stack' = stack /\ stamp' = stamp /\ algo' = algo
  BY DEF HandleError, app_ctx
<1>3. PICK e \in batch.err :
        IF Ignored(reg, e.fd) THEN UNCHANGED <<pool, reg, kern>>
        ELSE LET p == ReleaseAll(pool, e.fd)
                 r == Repaired(e.fd)
             IN  IF reg.info[e.fd].cat \in {"udp-read", "udp-write"} \/ r = <<>>
                 THEN pool' = p /\ UNCHANGED <<reg, kern>>
                 ELSE IF Len(r) = 1 THEN rm_fd(p, r[1])
                 ELSE /\ reg' = RmFd(RmFd(reg, r[1]), r[2])
                      /\ kern' = Close(Close(kern, r[1]), r[2])
                      /\ pool' = ForgetFd(ForgetFd(p, r[1]), r[2])
  BY DEF HandleError
<1>4. e.fd \in Fds
  <2>1. batch \in [err : SUBSET Events, cb : SUBSET Events]
    BY IInvIs
  <2> QED
    BY <1>3, <2>1 DEF Events
<1> SUFFICES Posted(reg') /\ \A g \in Fds : Thin(pool, sent, pool', sent, g)
  BY <1>1, <1>2, LoopRanks
<1>5. CASE Ignored(reg, e.fd)
  BY <1>1, <1>3, <1>5, ThinSame
<1>6. CASE ~ Ignored(reg, e.fd)
  <2> DEFINE p == ReleaseAll(pool, e.fd)
             r == Repaired(e.fd)
  <2>1. IsRegistered(reg, e.fd)
    BY <1>6 DEF Ignored
  <2>2. Sound(p) /\ \A g \in Fds : Thin(pool, sent, p, sent, g)
    BY <1>1, <1>4, Released, ReleasedThins
  <2>3. \/ pool' = p /\ reg' = reg
        \/ r # <<>> /\ Len(r) = 1 /\ rm_fd(p, r[1])
        \/ /\ r # <<>> /\ Len(r) # 1
           /\ reg' = RmFd(RmFd(reg, r[1]), r[2])
           /\ pool' = ForgetFd(ForgetFd(p, r[1]), r[2])
    BY <1>3, <1>6
  <2>4. LET Of(g, c) == g \in Fds /\ IsRegistered(reg, g) /\ reg.info[g].cat = c
        IN  \/ r = <<>>
            \/ Len(r) = 1 /\ (Of(r[1], "tcp-read") \/ Of(r[1], "tcp-write"))
            \/ Len(r) = 2 /\ Of(r[1], "tcp-read") /\ Of(r[2], "tcp-write")
    BY <1>4, <2>1, RepairedIs
  <2> HIDE DEF p, r
  <2>5. CASE pool' = p /\ reg' = reg
    BY <1>1, <2>2, <2>5
  <2>6. CASE r # <<>> /\ Len(r) = 1 /\ rm_fd(p, r[1])
    <3>1. /\ r[1] \in Fds /\ IsRegistered(reg, r[1])
          /\ reg.info[r[1]].cat \in {"tcp-read", "tcp-write"}
      BY <2>4, <2>6
    <3>2. Posted(reg')
      BY <2>6, <3>1, RemovedRanks
    <3>3. \A g \in Fds : Thin(p, sent, pool', sent, g)
      BY <2>2, <2>6, WaiterThins DEF rm_fd
    <3> QED
      BY <2>2, <3>2, <3>3, ThinThen
  <2>7. CASE /\ r # <<>> /\ Len(r) # 1
             /\ reg' = RmFd(RmFd(reg, r[1]), r[2])
             /\ pool' = ForgetFd(ForgetFd(p, r[1]), r[2])
    <3> DEFINE g == r[1]
               h == r[2]
               m == RmFd(reg, g)
               q == ForgetFd(p, g)
    <3>1. /\ g \in Fds /\ IsRegistered(reg, g) /\ reg.info[g].cat = "tcp-read"
          /\ h \in Fds /\ IsRegistered(reg, h) /\ reg.info[h].cat = "tcp-write"
      BY <2>4, <2>7
    <3>2. reg' = RmFd(m, h) /\ pool' = ForgetFd(q, h)
      BY <2>7
    <3>3. kern \in Kernels /\ Wired(reg, kern)
      BY IInvIs
    <3> HIDE DEF g, h
    <3>4. Wired(m, Close(kern, g)) /\ SameBut(reg, m, g) /\ ~ IsRegistered(m, g)
      BY <3>1, <3>3, RmWired
    <3>5. Close(kern, g) \in Kernels
      BY <3>1, <3>3, Closing
    <3> HIDE DEF m
    <3>6. IsRegistered(m, h) /\ m.info[h].cat = "tcp-write"
      BY <3>1, <3>4 DEF SameBut
    <3>7. ~ IsRegistered(reg', h) /\ SameBut(m, reg', h)
      BY <3>1, <3>2, <3>4, <3>5, <3>6, RmWired
    <3>8. g # UR /\ h # UR
      BY <1>1, <3>1 DEF Posted
    <3>9. Posted(m)
      BY <1>1, <3>1, <3>4, <3>8, PostedRemoved
    <3>10. Posted(reg')
      BY <3>1, <3>7, <3>8, <3>9, PostedRemoved
    <3>11. Sound(q) /\ \A x \in Fds : Thin(p, sent, q, sent, x)
      BY <2>2, <3>1, Forgotten, WaiterThins
    <3> HIDE DEF q
    <3>12. \A x \in Fds : Thin(q, sent, pool', sent, x)
      BY <3>2, <3>11, WaiterThins
    <3> QED
      BY <2>2, <3>10, <3>11, <3>12, ThinThen
  <2> QED
    BY <2>3, <2>5, <2>6, <2>7
<1> QED
  BY <1>5, <1>6

LEMMA TcpCoRanks == ASSUME IInv, Ranked, TcpCo PROVE Ranked'
<1> DEFINE p == Top.fd - 2
<1>1. /\ Top.fd \in Fds /\ IsRegistered(reg, Top.fd) /\ reg.info[Top.fd].cat = "tcp-listen"
  BY NamesAre, RunningIs DEF TcpCo
<1>2. sent' = sent /\ stamp' = stamp /\ algo' = algo
  BY DEF TcpCo, app_ctx
<1>3. Wired(reg, kern) /\ Sound(pool) /\ Posted(reg)
  BY IInvIs DEF Ranked
<1>4. p \in 0 .. NPorts
  <2>1. Top.fd \in Listeners
    BY <1>1, <1>3, WiredIs
  <2> QED
    BY <2>1, NumbersAre
<1>5. PICK r \in Closed(kern), inherit \in BOOLEAN :
        /\ reg' = AddFd(reg, r, "tcp-read", <<"tcp-read", p>>)
        /\ pool' = AdoptFd(pool, r, inherit)
        /\ stack' = <<Callback(reg', r, FALSE)>>
  BY DEF TcpCo
<1>6. r \in Fds /\ kern.sock[r] = NoSock
  BY <1>5 DEF Closed
<1>7. ~ IsRegistered(reg, r)
  BY <1>3, <1>6, WiredIs
<1> HIDE DEF p
<1>8. IsRegistered(reg', r) /\ reg'.info[r].cat = "tcp-read" /\ SameBut(reg, reg', r)
  BY <1>3, <1>4, <1>5, <1>6, <1>7, NamesAre, AddedIs
<1>9. Posted(reg')
  BY <1>3, <1>6, <1>7, <1>8, PostedAdded
<1>10. \A g \in Fds : Thin(pool, sent, pool', sent', g)
  BY <1>2, <1>3, <1>5, <1>6, AdoptedThins
<1>11. Callback(reg', r, FALSE).pc \notin Loops
  BY <1>8 DEF Callback, Loops
<1> QED
  BY <1>2, <1>5, <1>9, <1>10, <1>11, LoopRanks

LEMMA TcpCoWriterRanks == ASSUME IInv, Ranked, TcpCoWriter PROVE Ranked'
<1> DEFINE w == accepting
           p == current - 2
<1>1. fate = "run" /\ stack = <<>> /\ w # NoFd
  BY DEF TcpCoWriter
<1>2. sent' = sent /\ stamp' = stamp /\ algo' = algo
  BY DEF TcpCoWriter, app_ctx
<1>3. Wired(reg, kern) /\ Sound(pool) /\ Posted(reg)
  BY IInvIs DEF Ranked
<1>4. w \in Fds /\ ~ IsRegistered(reg, w) /\ current \in Listeners
  BY <1>1, IInvIs DEF Adding
<1>5. p \in 0 .. NPorts
  BY <1>4, NumbersAre
<1>6. PICK inherit \in BOOLEAN :
        /\ reg' = AddFd(reg, w, "tcp-write", <<"tcp-write", p>>)
        /\ pool' = AdoptFd(pool, w, inherit)
        /\ stack' = <<Callback(reg', w, TRUE)>>
  BY DEF TcpCoWriter
<1> HIDE DEF p, w
<1>7. IsRegistered(reg', w) /\ reg'.info[w].cat = "tcp-write" /\ SameBut(reg, reg', w)
  BY <1>3, <1>4, <1>5, <1>6, NamesAre, AddedIs
<1>8. Posted(reg')
  BY <1>3, <1>4, <1>7, PostedAdded
<1>9. \A g \in Fds : Thin(pool, sent, pool', sent', g)
  BY <1>2, <1>3, <1>4, <1>6, AdoptedThins
<1>10. Callback(reg', w, TRUE).pc \notin Loops
  BY <1>7 DEF Callback, Loops
<1> QED
  BY <1>2, <1>6, <1>8, <1>9, <1>10, LoopRanks

LEMMA UnchangedRanks ==
  ASSUME Ranked, UNCHANGED <<pool, reg, stack, sent, stamp, fate, algo>>
  PROVE  Ranked'
  BY DEF Ranked, Narrow

LEMMA InitPosted == ASSUME Init PROVE Posted(reg)
<1> DEFINE ur == <<"udp-read", 0>>
           uw == <<"udp-write", 0>>
           r == AddListeners
           s == AddFd(r, UR, "udp-read", ur)
           t == AddFd(s, UW, "udp-write", uw)
<1>1. reg = t
  BY DEF Init
<1>2. /\ r \in Registry /\ RegistryInv(r)
      /\ \A fd \in Fds : IsRegistered(r, fd) <=> fd \in Listeners
      /\ \A fd \in Listeners : r.info[fd].cat = "tcp-listen"
  BY ListenersAdded
<1> HIDE DEF r
<1>3. /\ ur \in Urls /\ uw \in Urls /\ "udp-read" \in Cats /\ "udp-write" \in Cats
  BY NamesAre, NumbersAre
<1> HIDE DEF ur, uw
<1>4. UR \in Fds /\ UW \in Fds /\ UR # UW /\ UR \notin Listeners /\ UW \notin Listeners
  BY NumbersAre
<1>5. s \in Registry /\ s.info = [r.info EXCEPT ![UR] = [cat |-> "udp-read", url |-> ur]]
  <2>1. Added(r, s, UR, "udp-read", ur)
    BY <1>2, <1>3, <1>4, AddFields
  <2>2. s \in Registry
    BY <1>2, <1>3, <1>4, AddKeepsRegistry
  <2> QED
    BY <2>1, <2>2 DEF Added
<1> HIDE DEF s
<1>6. t.info = [s.info EXCEPT ![UW] = [cat |-> "udp-write", url |-> uw]]
  <2>1. Added(s, t, UW, "udp-write", uw)
    BY <1>3, <1>4, <1>5, AddFields
  <2> QED
    BY <2>1 DEF Added
<1> HIDE DEF t
<1>7. r.info \in [Fds -> Info \cup {NoInfo}]
  BY <1>2 DEF Registry
<1>8. /\ t.info[UR].cat = "udp-read" /\ t.info[UW].cat = "udp-write"
      /\ \A fd \in Fds \ {UR, UW} : t.info[fd] = r.info[fd]
  BY <1>4, <1>5, <1>6, <1>7
<1>9. IsRegistered(t, UR)
  BY <1>8, NamesAre DEF IsRegistered, NoInfo
<1>10. \A fd \in Fds \ {UR, UW} : IsRegistered(t, fd) => t.info[fd].cat = "tcp-listen"
  BY <1>2, <1>8 DEF IsRegistered
<1> QED
  BY <1>1, <1>8, <1>9, <1>10 DEF Posted

LEMMA InitRanked == ASSUME Init PROVE Ranked
<1>1. /\ pool = get_read_buffer(InitPool, UR) /\ stack = <<>> /\ stamp = 0
      /\ sent = [fd \in Fds |-> 0]
  BY DEF Init
<1>2. Sound(pool)
  BY InitKeeps, IInvIs
<1>3. pool.pkt = [b \in Buffers |-> Blank]
  <2>1. InitPool.pkt = [b \in Buffers |-> Blank] /\ InitPool \in Pool
    BY InitSound, SoundIs DEF InitPool
  <2>2. pool.pkt = InitPool.pkt
    BY <1>1, <2>1 DEF get_read_buffer, Pool
  <2> QED
    BY <2>1, <2>2
<1>4. ASSUME NEW fd \in Fds, NEW k, NEW x, At(pool, sent, fd, k, x) PROVE k = 0 /\ x = 0
  <2>1. /\ pool.used[fd] # NoBuffer => pool.used[fd] \in Buffers
        /\ pool.writeWaiting[fd] \in Seq(Buffers)
    BY <1>2, SoundIs
  <2>2. \A i \in 1 .. Len(pool.writeWaiting[fd]) : pool.writeWaiting[fd][i] \in Buffers
    BY <2>1
  <2> QED
    BY <1>1, <1>3, <1>4, <2>1, <2>2 DEF At
<1>5. InOrder(pool, sent, stamp)
  BY <1>1, <1>4 DEF InOrder, Links, Rising, Below
<1>6. Calm(stack)
  BY <1>1, CalmEmpty
<1> QED
  BY <1>5, <1>6, InitPosted DEF Ranked, Spreading

(* What a link has sent and has yet to send rises, and the one datagram     *)
(* that is being sent over the links is above all that the links still to   *)
(* come have: it is the last one read, or its buffer is blank by now.       *)
THEOREM Ranking == Spec => []Ranked
<1>1. Init => Ranked
  BY InitRanked
<1>2. IInv /\ Ranked /\ [Next]_vars => Ranked'
  <2> SUFFICES ASSUME IInv, Ranked, [Next]_vars PROVE Ranked'
    OBVIOUS
  <2>1. CASE Poll
    BY <2>1, PollRanks
  <2>2. CASE HandleError
    BY <2>2, HandleErrorRanks
  <2>3. CASE HandleEvent
    BY <2>3, HandleEventRanks
  <2>4. CASE TcpCoNone
    BY <2>4, TcpCoNoneRanks
  <2>5. CASE TcpCo
    BY <2>5, TcpCoRanks
  <2>6. CASE TcpCoWriter
    BY <2>6, TcpCoWriterRanks
  <2>7. CASE TcpRead
    BY <2>7, TcpReadRanks
  <2>8. CASE UdpRead
    BY <2>8, UdpReadRanks
  <2>9. CASE Dup2Link
    BY <2>9, Dup2LinkRanks
  <2>10. CASE Dup2Done
    BY <2>10, Dup2DoneRanks
  <2>11. CASE LightningSend
    BY <2>11, LightningSendRanks
  <2>12. CASE LightningDone
    BY <2>12, LightningDoneRanks
  <2>13. CASE TcpWrite
    BY <2>13, TcpWriteRanks
  <2>14. CASE UdpWrite
    BY <2>14, UdpWriteRanks
  <2>15. CASE Env
    BY <2>15, UnchangedRanks
       DEF Env, Connect, Arrive, Break, UdpError, Drain, EnvVars, app_ctx
  <2>16. CASE UNCHANGED vars
    BY <2>16, UnchangedRanks DEF vars, app_ctx
  <2> QED
    BY <2>1, <2>2, <2>3, <2>4, <2>5, <2>6, <2>7, <2>8, <2>9, <2>10, <2>11, <2>12, <2>13,
       <2>14, <2>15, <2>16 DEF Next, Step
<1> QED
  BY <1>1, <1>2, Invariance, PTL DEF Spec

-----------------------------------------------------------------------------
LEMMA JoinedIs ==
  ASSUME NEW S, NEW h \in Seq(S), NEW t \in Seq(S)
  PROVE  LET o == h \o t
         IN  /\ Len(o) = Len(h) + Len(t) /\ DOMAIN o = 1 .. Len(o)
             /\ \A k \in 1 .. Len(h) : o[k] = h[k]
             /\ \A k \in (Len(h) + 1) .. (Len(h) + Len(t)) : o[k] = t[k - Len(h)]
  OBVIOUS

(* The datagrams that a link has sent, is sending and has queued are in the *)
(* order in which they were read, none twice: for naive and lightning over  *)
(* any number of links, and for dup2 over two, which is as far as it is     *)
(* true, however a writer that notify_read wakes up reads in between.       *)
THEOREM TunnelStaysOrdered ==
  Spec => [](NPorts <= 2 \/ algo # "dup2" => TunnelOrder)
<1>1. IInv /\ Ranked => (NPorts <= 2 \/ algo # "dup2" => TunnelOrder)
  <2> SUFFICES ASSUME IInv, Ranked, Narrow, NEW fd \in Registered(reg),
                      reg.info[fd].cat = "tcp-write",
                      NEW i \in DOMAIN Outgoing(fd), NEW j \in DOMAIN Outgoing(fd), i < j,
                      Outgoing(fd)[i] # Blank, Outgoing(fd)[j] # Blank
               PROVE  Outgoing(fd)[i] < Outgoing(fd)[j]
    BY DEF TunnelOrder, Narrow
  <2> DEFINE w == pool.writeWaiting[fd]
             u == IF pool.used[fd] = NoBuffer THEN Blank ELSE pool.pkt[pool.used[fd]]
             h == <<sent[fd], u>>
             t == [k \in DOMAIN w |-> pool.pkt[w[k]]]
             o == h \o t
  <2>1. Wired(reg, kern) /\ Posted(reg) /\ Sound(pool) /\ InOrder(pool, sent, stamp)
    BY IInvIs DEF Ranked
  <2>2. fd \in Fds /\ IsRegistered(reg, fd)
    BY DEF Registered
  <2>3. fd \in Links
    BY <2>1, <2>2, LinkIs
  <2>4. w \in Seq(Buffers) /\ pool.pkt \in [Buffers -> Packets \cup {Blank}]
    BY <2>1, <2>2, SoundIs
  <2>5. Outgoing(fd) = o
    BY DEF Outgoing
  <2>6. Len(w) \in Nat /\ DOMAIN w = 1 .. Len(w)
    BY <2>4
  <2> DEFINE n == Len(w)
             S == {u, sent[fd]} \cup {pool.pkt[w[k]] : k \in 1 .. n}
  <2>7. t \in Seq(S) /\ Len(t) = n /\ h \in Seq(S) /\ Len(h) = 2
        /\ (\A k \in 1 .. n : t[k] = pool.pkt[w[k]]) /\ h[1] = sent[fd] /\ h[2] = u
    <3>1. t \in [1 .. n -> S] /\ \A k \in 1 .. n : t[k] = pool.pkt[w[k]]
      BY <2>6
    <3>2. h \in Seq(S) /\ Len(h) = 2 /\ h[1] = sent[fd] /\ h[2] = u
      <4> HIDE DEF u
      <4>1. u \in S /\ sent[fd] \in S
        OBVIOUS
      <4> HIDE DEF S
      <4> QED
        BY <4>1
    <3> HIDE DEF t, S, h
    <3> QED
      BY <2>6, <3>1, <3>2
  <2>8. /\ DOMAIN o = 1 .. (n + 2) /\ o[1] = sent[fd] /\ o[2] = u
        /\ \A k \in 3 .. (n + 2) : o[k] = pool.pkt[w[k - 2]]
    <3> HIDE DEF t, S, h, n, w, u
    <3>1. n \in Nat
      BY <2>6 DEF n
    <3>2. /\ Len(o) = Len(h) + Len(t) /\ DOMAIN o = 1 .. Len(o)
          /\ \A k \in 1 .. Len(h) : o[k] = h[k]
          /\ \A k \in (Len(h) + 1) .. (Len(h) + Len(t)) : o[k] = t[k - Len(h)]
      BY <2>7, JoinedIs
    <3> HIDE DEF o
    <3>3. DOMAIN o = 1 .. (n + 2) /\ o[1] = h[1] /\ o[2] = h[2]
      BY <2>7, <3>1, <3>2
    <3>4. \A k \in 3 .. (n + 2) : k - 2 \in 1 .. n /\ o[k] = t[k - 2]
      BY <2>7, <3>1, <3>2
    <3> QED
      BY <2>7, <3>3, <3>4
  <2>9. ASSUME NEW k \in DOMAIN o, o[k] # Blank PROVE At(pool, sent, fd, k - 1, o[k])
    <3> HIDE DEF o, t, h
    <3>1. n \in Nat /\ k \in 1 .. (n + 2)
      BY <2>6, <2>8, <2>9
    <3>2. CASE k = 1
      BY <2>8, <2>9, <3>2 DEF At
    <3>3. CASE k = 2
      BY <2>8, <2>9, <3>3 DEF At
    <3>4. CASE k \in 3 .. (n + 2)
      <4>1. o[k] = pool.pkt[w[k - 2]] /\ k - 2 \in 1 .. n /\ k - 1 = (k - 2) + 1
        BY <2>8, <3>1, <3>4
      <4> QED
        BY <2>9, <4>1 DEF At
    <3> QED
      BY <3>1, <3>2, <3>3, <3>4
  <2> HIDE DEF o
  <2>10. i \in DOMAIN o /\ j \in DOMAIN o /\ o[i] # Blank /\ o[j] # Blank
    BY <2>5
  <2>11. At(pool, sent, fd, i - 1, o[i]) /\ At(pool, sent, fd, j - 1, o[j])
    BY <2>9, <2>10
  <2>12. i - 1 < j - 1
    <3>1. i \in 1 .. (n + 2) /\ j \in 1 .. (n + 2) /\ n \in Nat
      BY <2>6, <2>8, <2>10
    <3> QED
      BY <3>1
  <2>13. Rising(pool, sent, fd)
    BY <2>1, <2>3 DEF InOrder
  <2>14. o[i] < o[j]
    BY <2>11, <2>12, <2>13 DEF Rising
  <2> QED
    BY <2>5, <2>14
<1> QED
  BY <1>1, Invariance, Ranking, PTL
=============================================================================
