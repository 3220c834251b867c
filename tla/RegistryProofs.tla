---------------------------- MODULE RegistryProofs ----------------------------
(***************************************************************************)
(* What the operations of module EvtCore do to a registry: they keep its   *)
(* invariant, whoever calls them and in whatever order.                    *)
(***************************************************************************)
EXTENDS EvtCore, Integers, WellFoundedInduction, TLAPS

-----------------------------------------------------------------------------
(* A set of natural numbers that is not empty has a least member. *)
LEMMA LeastNumber ==
  ASSUME NEW T \in SUBSET Nat, T # {}
  PROVE  \E m \in T : \A k \in T : m <= k
<1> DEFINE R == OpToRel(<, Nat)
<1>1. IsWellFoundedOn(R, Nat)
  BY NatLessThanWellFounded
<1>2. \A x, y \in Nat : <<y, x>> \in R <=> y < x
  BY DEF OpToRel
<1> HIDE DEF R
<1>3. PICK m \in T : \A k \in T : ~ (<<k, m>> \in R)
  BY <1>1, WFMin
<1>4. \A k \in T : ~ (k < m)
  BY <1>2, <1>3
<1>5. \A k \in T : m <= k
  BY <1>4
<1> QED
  BY <1>5

(* What holds of 0, and of the successor of each number below n, holds up  *)
(* to n: induction, which the library states with a predicate.            *)
LEMMA IntervalInduct ==
  ASSUME NEW n \in Nat, NEW S, 0 \in S,
         \A i \in 0 .. (n - 1) : i \in S => i + 1 \in S
  PROVE  \A i \in 0 .. n : i \in S
<1> DEFINE T == {i \in 0 .. n : i \notin S}
<1> SUFFICES ASSUME T # {} PROVE FALSE
  OBVIOUS
<1>1. T \in SUBSET Nat
  OBVIOUS
<1>2. PICK m \in T : \A k \in T : m <= k
  <2> HIDE DEF T
  <2> QED
    BY <1>1, LeastNumber
<1>3. m - 1 \in 0 .. (n - 1) /\ m - 1 \in S
  BY <1>2
<1> QED
  BY <1>2, <1>3

(* The two descriptions of a category: its list, and the fdinfos.          *)
Distinct(s) == \A i, j \in 1 .. Len(s) : s[i] = s[j] => i = j
Holds(s, fd) == \E i \in 1 .. Len(s) : s[i] = fd

LEMMA DomainIs == \A s \in Seq(Fds) : DOMAIN s = 1 .. Len(s) /\ Len(s) \in Nat
  OBVIOUS

LEMMA ListsAre ==
  ASSUME NEW r \in Registry
  PROVE  ListsAgree(r) <=>
           \A c \in Cats : /\ Distinct(r.list[c])
                           /\ \A fd \in Fds : Holds(r.list[c], fd) <=> r.info[fd].cat = c
<1>1. /\ \A c \in Cats : r.list[c] \in Seq(Fds)
      /\ \A fd \in Fds : r.info[fd] = NoInfo \/ r.info[fd] \in Info
  BY DEF Registry
<1>2. \A c \in Cats : /\ DOMAIN r.list[c] = 1 .. Len(r.list[c])
                      /\ \A i \in 1 .. Len(r.list[c]) : r.list[c][i] \in Fds
  BY <1>1
<1>3. \A fd \in Fds : /\ IsRegistered(r, fd) <=> r.info[fd].cat \in Cats
                      /\ IsRegistered(r, fd) => r.info[fd] \in Info
  BY <1>1, EvtCoreAssumption DEF IsRegistered, NoInfo, Info
<1>4. ASSUME ListsAgree(r), NEW c \in Cats
      PROVE  /\ Distinct(r.list[c])
             /\ \A fd \in Fds : Holds(r.list[c], fd) <=> r.info[fd].cat = c
  <2>1. Distinct(r.list[c])
    BY <1>2, <1>4 DEF ListsAgree, Distinct
  <2>2. ASSUME NEW fd \in Fds PROVE Holds(r.list[c], fd) <=> r.info[fd].cat = c
    BY <1>2, <1>3, <1>4 DEF ListsAgree, Holds, Registered
  <2> QED
    BY <2>1, <2>2
<1>5. ASSUME \A c \in Cats : /\ Distinct(r.list[c])
                             /\ \A fd \in Fds : Holds(r.list[c], fd) <=> r.info[fd].cat = c
      PROVE  ListsAgree(r)
  <2>1. \A c \in Cats : \A i, j \in DOMAIN r.list[c] :
           r.list[c][i] = r.list[c][j] => i = j
    BY <1>2, <1>5 DEF Distinct
  <2>2. \A c \in Cats : \A i \in DOMAIN r.list[c] : r.info[r.list[c][i]].cat = c
    BY <1>2, <1>5 DEF Holds
  <2>3. \A fd \in Registered(r) : \E i \in DOMAIN r.list[r.info[fd].cat] :
           r.list[r.info[fd].cat][i] = fd
    BY <1>2, <1>3, <1>5 DEF Holds, Registered
  <2> QED
    BY <2>1, <2>2, <2>3 DEF ListsAgree
<1> QED
  BY <1>4, <1>5

(* The list of a category that is joined. *)
LEMMA Joined ==
  ASSUME NEW s \in Seq(Fds), NEW fd \in Fds, Distinct(s), ~ Holds(s, fd)
  PROVE  /\ Append(s, fd) \in Seq(Fds) /\ Distinct(Append(s, fd))
         /\ \A g \in Fds : Holds(Append(s, fd), g) <=> Holds(s, g) \/ g = fd
<1> DEFINE t == Append(s, fd)
<1>1. /\ Len(s) \in Nat /\ t \in Seq(Fds) /\ Len(t) = Len(s) + 1
      /\ t[Len(s) + 1] = fd /\ \A i \in 1 .. Len(s) : t[i] = s[i]
  OBVIOUS
<1>2. Distinct(t)
  <2> SUFFICES ASSUME NEW i \in 1 .. Len(t), NEW j \in 1 .. Len(t), t[i] = t[j]
               PROVE  i = j
    BY DEF Distinct
  <2> HIDE DEF t
  <2> QED
    BY <1>1 DEF Distinct, Holds
<1>3. ASSUME NEW g \in Fds PROVE Holds(t, g) <=> Holds(s, g) \/ g = fd
  <2> HIDE DEF t
  <2> QED
    BY <1>1 DEF Holds
<1> QED
  BY <1>1, <1>2, <1>3

(* And of one that is left. *)
LEMMA Left ==
  ASSUME NEW s \in Seq(Fds), NEW fd \in Fds, Distinct(s)
  PROVE  /\ WithoutFd(s, fd) \in Seq(Fds) /\ Distinct(WithoutFd(s, fd))
         /\ \A g \in Fds : Holds(WithoutFd(s, fd), g) <=> Holds(s, g) /\ g # fd
<1> DEFINE t == WithoutFd(s, fd)
<1>1. DOMAIN s = 1 .. Len(s) /\ Len(s) \in Nat
  BY DomainIs
<1>2. CASE ~ Holds(s, fd)
  <2>1. t = s
    BY <1>1, <1>2 DEF WithoutFd, Holds
  <2> QED
    BY <1>2, <2>1 DEF Holds
<1>3. CASE Holds(s, fd)
  <2>1. PICK k \in 1 .. Len(s) :
          s[k] = fd /\ t = [j \in 1 .. (Len(s) - 1) |-> IF j < k THEN s[j] ELSE s[j + 1]]
    <3>1. \E i \in DOMAIN s : s[i] = fd
      BY <1>1, <1>3 DEF Holds
    <3> QED
      BY <1>1, <3>1 DEF WithoutFd
  <2> HIDE DEF t
  <2>2. Len(s) - 1 \in Nat
    BY <1>1
  <2>3. \A j \in 1 .. (Len(s) - 1) : t[j] = (IF j < k THEN s[j] ELSE s[j + 1]) /\ t[j] \in Fds
    BY <1>1, <2>1
  <2>4. t \in Seq(Fds) /\ Len(t) = Len(s) - 1
    <3>1. t \in [1 .. (Len(s) - 1) -> Fds]
      BY <2>1, <2>3
    <3> QED
      BY <2>2, <3>1
  <2>5. Distinct(t)
    BY <1>1, <2>3, <2>4 DEF Distinct
  <2>6. ASSUME NEW g \in Fds PROVE Holds(t, g) <=> Holds(s, g) /\ g # fd
    <3>1. ASSUME NEW j \in 1 .. Len(t), t[j] = g PROVE Holds(s, g) /\ g # fd
      <4>1. PICK i \in 1 .. Len(s) : i # k /\ t[j] = s[i]
        BY <1>1, <2>3, <2>4, <3>1
      <4> QED
        BY <2>1, <3>1, <4>1 DEF Holds, Distinct
    <3>2. ASSUME NEW i \in 1 .. Len(s), s[i] = g, g # fd PROVE Holds(t, g)
      <4>1. i # k
        BY <2>1, <3>2
      <4>2. PICK j \in 1 .. Len(t) : t[j] = s[i]
        <5>1. CASE i < k
          BY <1>1, <2>3, <2>4, <5>1
        <5>2. CASE i > k
          <6>1. i - 1 \in 1 .. Len(t) /\ t[i - 1] = s[(i - 1) + 1] /\ (i - 1) + 1 = i
            BY <1>1, <2>3, <2>4, <5>2
          <6> QED
            BY <6>1
        <5> QED
          BY <4>1, <5>1, <5>2
      <4> QED
        BY <3>2, <4>2 DEF Holds
    <3> QED
      BY <3>1, <3>2 DEF Holds
  <2> QED
    BY <2>4, <2>5, <2>6 DEF t
<1> QED
  BY <1>2, <1>3

(* What evt_core_add_fd and evt_core_rm_fd do, field by field. *)
Added(r, t, fd, c, u) ==
  /\ t \in Registry
  /\ t.info = [r.info EXCEPT ![fd] = [cat |-> c, url |-> u]]
  /\ t.list = [r.list EXCEPT ![c] = Append(r.list[c], fd)]
  /\ t.url = [r.url EXCEPT ![u] = fd]
  /\ t.key = [r.key EXCEPT ![u] = IF r.url[u] = NoFd THEN fd ELSE r.key[u]]
  /\ t.black = r.black

Removed(r, t, fd, c, u) ==
  /\ c \in Cats /\ u \in Urls
  /\ t.info = [r.info EXCEPT ![fd] = NoInfo]
  /\ t.list = [r.list EXCEPT ![c] = WithoutFd(r.list[c], fd)]
  /\ t.url = [r.url EXCEPT ![u] = NoFd]
  /\ t.key = [r.key EXCEPT ![u] = NoFd]
  /\ t.black = Append(r.black, fd)
  /\ t = [info |-> t.info, list |-> t.list, url |-> t.url, key |-> t.key,
          black |-> t.black]

LEMMA AddFields ==
  ASSUME NEW r \in Registry, NEW fd \in Fds, NEW c \in Cats, NEW u \in Urls
  PROVE  Added(r, AddFd(r, fd, c, u), fd, c, u)
<1> DEFINE t == AddFd(r, fd, c, u)
<1>1. /\ t.info = [r.info EXCEPT ![fd] = [cat |-> c, url |-> u]]
      /\ t.list = [r.list EXCEPT ![c] = Append(r.list[c], fd)]
      /\ t.url = [r.url EXCEPT ![u] = fd]
      /\ t.key = [r.key EXCEPT ![u] = IF r.url[u] = NoFd THEN fd ELSE r.key[u]]
      /\ t.black = r.black
  BY DEF AddFd, Registry
<1>2. t = [info |-> t.info, list |-> t.list, url |-> t.url, key |-> t.key, black |-> t.black]
  <2>1. r = [info |-> r.info, list |-> r.list, url |-> r.url, key |-> r.key,
             black |-> r.black]
    BY DEF Registry
  <2>2. DOMAIN t = {"info", "list", "url", "key", "black"}
    BY <2>1 DEF AddFd
  <2>3. t = [x \in {"info", "list", "url", "key", "black"} |-> t[x]]
    BY <2>1, <2>2 DEF AddFd
  <2> QED
    BY <2>2, <2>3
<1> HIDE DEF t
<1>3. /\ r.info \in [Fds -> Info \cup {NoInfo}] /\ r.list \in [Cats -> Seq(Fds)]
      /\ r.url \in [Urls -> Fds \cup {NoFd}] /\ r.key \in [Urls -> Fds \cup {NoFd}]
      /\ r.black \in Seq(Fds)
  BY DEF Registry
<1>4. t.info \in [Fds -> Info \cup {NoInfo}]
  BY <1>1, <1>3 DEF Info
<1>5. t.list \in [Cats -> Seq(Fds)]
  <2>1. Append(r.list[c], fd) \in Seq(Fds)
    BY <1>3
  <2> QED
    BY <1>1, <1>3, <2>1
<1>6. /\ t.url \in [Urls -> Fds \cup {NoFd}] /\ t.key \in [Urls -> Fds \cup {NoFd}]
      /\ t.black \in Seq(Fds)
  BY <1>1, <1>3
<1>7. t \in Registry
  BY <1>2, <1>4, <1>5, <1>6 DEF Registry
<1> QED
  BY <1>1, <1>7 DEF t, Added

LEMMA RmFields ==
  ASSUME NEW r \in Registry, NEW fd \in Fds, IsRegistered(r, fd)
  PROVE  Removed(r, RmFd(r, fd), fd, r.info[fd].cat, r.info[fd].url)
<1>1. r.info[fd] \in Info
  BY DEF IsRegistered, Registry
<1>2. r.info[fd].cat \in Cats /\ r.info[fd].url \in Urls
  BY <1>1 DEF Info
<1> QED
  BY <1>2 DEF RmFd, Registry, Removed

(* The registry's invariant, without the positions in its lists. *)
Agrees(r) ==
  \A c \in Cats : /\ Distinct(r.list[c])
                  /\ \A fd \in Fds : Holds(r.list[c], fd) <=> r.info[fd].cat = c

LEMMA InvIs ==
  ASSUME NEW r \in Registry PROVE RegistryInv(r) <=> Agrees(r) /\ UrlsLive(r)
BY ListsAre DEF RegistryInv, Agrees

(* evt_core_add_fd, of a descriptor that is not registered, keeps the       *)
(* registry's invariant, whether or not its URL is taken.                  *)
THEOREM AddKeepsRegistry ==
  ASSUME NEW r \in Registry, NEW fd \in Fds, NEW c \in Cats, NEW u \in Urls,
         RegistryInv(r), ~ IsRegistered(r, fd)
  PROVE  AddFd(r, fd, c, u) \in Registry /\ RegistryInv(AddFd(r, fd, c, u))
<1> DEFINE t == AddFd(r, fd, c, u)
<1>1. /\ t \in Registry
      /\ t.info = [r.info EXCEPT ![fd] = [cat |-> c, url |-> u]]
      /\ t.list = [r.list EXCEPT ![c] = Append(r.list[c], fd)]
      /\ t.url = [r.url EXCEPT ![u] = fd]
      /\ t.key = [r.key EXCEPT ![u] = IF r.url[u] = NoFd THEN fd ELSE r.key[u]]
  <2>1. Added(r, t, fd, c, u)
    BY AddFields
  <2> QED
    BY <2>1 DEF Added
<1> HIDE DEF t
<1>2. Agrees(r) /\ UrlsLive(r)
  BY InvIs
<1>3. /\ r.info \in [Fds -> Info \cup {NoInfo}] /\ r.list \in [Cats -> Seq(Fds)]
      /\ r.url \in [Urls -> Fds \cup {NoFd}] /\ r.key \in [Urls -> Fds \cup {NoFd}]
      /\ r.info[fd] = NoInfo
  BY DEF Registry, IsRegistered
<1>4. Agrees(t)
  <2> SUFFICES ASSUME NEW d \in Cats
               PROVE  /\ Distinct(t.list[d])
                      /\ \A g \in Fds : Holds(t.list[d], g) <=> t.info[g].cat = d
    BY DEF Agrees
  <2>1. /\ Distinct(r.list[d]) /\ r.list[d] \in Seq(Fds)
        /\ \A g \in Fds : Holds(r.list[d], g) <=> r.info[g].cat = d
    BY <1>2, <1>3 DEF Agrees
  <2>2. r.info[fd].cat = NoFd
    BY <1>3 DEF NoInfo
  <2>3. ~ Holds(r.list[d], fd)
    BY <2>1, <2>2, EvtCoreAssumption
  <2>4. CASE d = c
    <3>1. t.list[d] = Append(r.list[d], fd)
      BY <1>1, <1>3, <2>4
    <3>2. /\ Distinct(t.list[d])
          /\ \A g \in Fds : Holds(t.list[d], g) <=> Holds(r.list[d], g) \/ g = fd
      BY <2>1, <2>3, <3>1, Joined
    <3>3. \A g \in Fds : t.info[g].cat = IF g = fd THEN c ELSE r.info[g].cat
      BY <1>1, <1>3
    <3> QED
      BY <2>1, <2>4, <3>2, <3>3
  <2>5. CASE d # c
    <3>1. t.list[d] = r.list[d]
      BY <1>1, <1>3, <2>5
    <3>2. \A g \in Fds : t.info[g].cat = IF g = fd THEN c ELSE r.info[g].cat
      BY <1>1, <1>3
    <3> QED
      BY <2>1, <2>3, <2>5, <3>1, <3>2
  <2> QED
    BY <2>4, <2>5
<1>5. UrlsLive(t)
  <2> SUFFICES ASSUME NEW v \in Urls
               PROVE  /\ t.url[v] # NoFd => t.info[t.url[v]].url = v /\ t.info[t.key[v]].url = v
                      /\ t.url[v] = NoFd <=> t.key[v] = NoFd
    BY DEF UrlsLive
  <2>1. /\ r.url[v] # NoFd => r.info[r.url[v]].url = v /\ r.info[r.key[v]].url = v
        /\ r.url[v] = NoFd <=> r.key[v] = NoFd
        /\ r.url[v] \in Fds \cup {NoFd} /\ r.key[v] \in Fds \cup {NoFd}
    BY <1>2, <1>3 DEF UrlsLive
  <2>2. r.info[fd].url # v
    BY <1>3, EvtCoreAssumption DEF NoInfo
  <2>3. r.url[v] # NoFd => r.url[v] # fd /\ r.key[v] # fd
    BY <2>1, <2>2
  <2>4. /\ t.info[fd].url = u
        /\ \A g \in Fds : g # fd => t.info[g] = r.info[g]
    BY <1>1, <1>3
  <2>5. CASE v = u
    <3>1. t.url[v] = fd /\ t.key[v] = IF r.url[v] = NoFd THEN fd ELSE r.key[v]
      BY <1>1, <1>3, <2>5
    <3> QED
      BY <2>1, <2>3, <2>4, <2>5, <3>1, EvtCoreAssumption
  <2>6. CASE v # u
    <3>1. t.url[v] = r.url[v] /\ t.key[v] = r.key[v]
      BY <1>1, <1>3, <2>6
    <3> QED
      BY <2>1, <2>3, <2>4, <3>1
  <2> QED
    BY <2>5, <2>6
<1> QED
  BY <1>1, <1>4, <1>5, InvIs DEF t

(* And so does evt_core_rm_fd, of any descriptor: when it finds the entry   *)
(* of a URL that another fdinfo has taken since, both are gone, and the     *)
(* table leads nowhere.                                                    *)
THEOREM RmKeepsRegistry ==
  ASSUME NEW r \in Registry, NEW fd \in Fds, RegistryInv(r)
  PROVE  RmFd(r, fd) \in Registry /\ RegistryInv(RmFd(r, fd))
<1>1. CASE ~ IsRegistered(r, fd)
  BY <1>1 DEF RmFd
<1>2. CASE IsRegistered(r, fd)
  <2> DEFINE t == RmFd(r, fd)
             c == r.info[fd].cat
             u == r.info[fd].url
  <2>1. /\ c \in Cats /\ u \in Urls
        /\ t.info = [r.info EXCEPT ![fd] = NoInfo]
        /\ t.list = [r.list EXCEPT ![c] = WithoutFd(r.list[c], fd)]
        /\ t.url = [r.url EXCEPT ![u] = NoFd]
        /\ t.key = [r.key EXCEPT ![u] = NoFd]
        /\ t.black = Append(r.black, fd)
        /\ t = [info |-> t.info, list |-> t.list, url |-> t.url, key |-> t.key,
                black |-> t.black]
    BY <1>2, RmFields DEF Removed
  <2> HIDE DEF t
  <2>2. Agrees(r) /\ UrlsLive(r)
    BY InvIs
  <2>3. /\ r.info \in [Fds -> Info \cup {NoInfo}] /\ r.list \in [Cats -> Seq(Fds)]
        /\ r.url \in [Urls -> Fds \cup {NoFd}] /\ r.key \in [Urls -> Fds \cup {NoFd}]
        /\ r.black \in Seq(Fds)
    BY DEF Registry
  <2>4. ASSUME NEW d \in Cats
        PROVE  /\ t.list[d] \in Seq(Fds) /\ Distinct(t.list[d])
               /\ \A g \in Fds : Holds(t.list[d], g) <=> t.info[g].cat = d
    <3>1. /\ Distinct(r.list[d]) /\ r.list[d] \in Seq(Fds)
          /\ \A g \in Fds : Holds(r.list[d], g) <=> r.info[g].cat = d
      BY <2>2, <2>3 DEF Agrees
    <3>2. \A g \in Fds : t.info[g].cat = IF g = fd THEN NoFd ELSE r.info[g].cat
      BY <2>1, <2>3 DEF NoInfo
    <3>3. CASE d = c
      <4>1. t.list[d] = WithoutFd(r.list[d], fd)
        BY <2>1, <2>3, <3>3
      <4>2. /\ t.list[d] \in Seq(Fds) /\ Distinct(t.list[d])
            /\ \A g \in Fds : Holds(t.list[d], g) <=> Holds(r.list[d], g) /\ g # fd
        <5>1. PICK s \in Seq(Fds) : s = r.list[d]
          BY <3>1
        <5>2. Distinct(s)
          BY <3>1, <5>1
        <5>3. /\ WithoutFd(s, fd) \in Seq(Fds) /\ Distinct(WithoutFd(s, fd))
              /\ \A g \in Fds : Holds(WithoutFd(s, fd), g) <=> Holds(s, g) /\ g # fd
          BY <5>2, Left
        <5> QED
          BY <4>1, <5>1, <5>3, Zenon
      <4> QED
        BY <3>1, <3>2, <4>2, EvtCoreAssumption
    <3>4. CASE d # c
      <4>1. t.list[d] = r.list[d]
        BY <2>1, <2>3, <3>4
      <4> QED
        BY <3>1, <3>2, <3>4, <4>1, EvtCoreAssumption
    <3> QED
      BY <3>3, <3>4
  <2>5. t \in Registry
    <3>1. t.info \in [Fds -> Info \cup {NoInfo}]
      BY <2>1, <2>3
    <3>2. t.list \in [Cats -> Seq(Fds)]
      BY <2>1, <2>3, <2>4
    <3>3. /\ t.url \in [Urls -> Fds \cup {NoFd}] /\ t.key \in [Urls -> Fds \cup {NoFd}]
          /\ t.black \in Seq(Fds)
      BY <2>1, <2>3
    <3> QED
      BY <2>1, <3>1, <3>2, <3>3 DEF Registry
  <2>6. Agrees(t)
    BY <2>4 DEF Agrees
  <2>7. UrlsLive(t)
    <3> SUFFICES ASSUME NEW v \in Urls
                 PROVE  /\ t.url[v] # NoFd => /\ t.info[t.url[v]].url = v
                                              /\ t.info[t.key[v]].url = v
                        /\ t.url[v] = NoFd <=> t.key[v] = NoFd
      BY DEF UrlsLive
    <3>1. /\ r.url[v] # NoFd => r.info[r.url[v]].url = v /\ r.info[r.key[v]].url = v
          /\ r.url[v] = NoFd <=> r.key[v] = NoFd
          /\ r.url[v] \in Fds \cup {NoFd} /\ r.key[v] \in Fds \cup {NoFd}
      BY <2>2, <2>3 DEF UrlsLive
    <3>2. \A g \in Fds : g # fd => t.info[g] = r.info[g]
      BY <2>1, <2>3
    <3>3. CASE v = u
      BY <2>1, <2>3, <3>3
    <3>4. CASE v # u
      <4>1. t.url[v] = r.url[v] /\ t.key[v] = r.key[v]
        BY <2>1, <2>3, <3>4
      <4> QED
        BY <3>1, <3>2, <3>4, <4>1
    <3> QED
      BY <3>3, <3>4
  <2> QED
    BY <2>5, <2>6, <2>7, InvIs DEF t
<1> QED
  BY <1>1, <1>2

=============================================================================
