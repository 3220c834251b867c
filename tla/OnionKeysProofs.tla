-------------------------- MODULE OnionKeysProofs --------------------------
(***************************************************************************)
(* The key of the onion service is kept, for any number of keys and of     *)
(* failures.                                                               *)
(*                                                                         *)
(* AddressKept is not inductive: that a client's key is the server's rests *)
(* on what the files hold at each step of create_onion_services and on what*)
(* the process has read of them.  IInv says it; its heart is that the      *)
(* private file, once it holds a key, holds it for ever.                   *)
(***************************************************************************)
EXTENDS OnionKeys, TLAPS

Persisting == {"open-pub", "write-pub", "open-priv"}

(* The files: a key in the private one is also in the public one. *)
FilesAgree == priv \in Keys => pub = priv

(* What is known of the files and the memory at each step. *)
StepKnows ==
  /\ pc \in Persisting => priv = "absent" /\ key \in Keys
  /\ pc \in {"open-priv", "write-priv"} => pub = key /\ key \in Keys
  /\ pc = "write-priv" => priv = "empty"
  /\ pc = "up" => priv = key /\ key \in Keys
  /\ pc \in {"connect", "add"} /\ filled = 0 => priv = "absent"
  /\ pc \in {"connect", "add"} /\ filled = 1 =>
       key = (IF priv \in Keys THEN priv ELSE NoKey)

(* Tor serves the key in memory as long as the connection is open. *)
ServedKey ==
  /\ pc = "up" /\ conn => served = key
  /\ pc \in Persisting \cup {"write-priv"} /\ conn => served = key

(* A sure copy is of the key in the private file. *)
SureCopies == \A c \in {copy, client} : c.sure => priv \in Keys /\ c.key = priv

IInv == TypeOK /\ FilesAgree /\ StepKnows /\ ServedKey /\ SureCopies

(* A key is none of the marks that stand for something else. *)
LEMMA KeysAreKeys ==
  ASSUME NEW k \in Keys
  PROVE  k # NoKey /\ k # "absent" /\ k # "empty" /\ k # "crash"
  BY OnionKeysAssumption DEF NoKey

LEMMA InitIInv == Init => IInv
<1> SUFFICES ASSUME Init PROVE IInv
  OBVIOUS
<1>1. NoCopy \in Copies /\ NoCopy.sure = FALSE
  BY DEF NoCopy, Copies, Files
<1>2. TypeOK
  BY <1>1 DEF Init, TypeOK, Files, Steps
<1>3. FilesAgree /\ StepKnows /\ ServedKey
  BY DEF Init, FilesAgree, StepKnows, ServedKey, Persisting
<1>4. SureCopies
  BY <1>1 DEF Init, SureCopies
<1> QED
  BY <1>2, <1>3, <1>4 DEF IInv

-----------------------------------------------------------------------------
(* The server. *)

(* The end of the process takes its memory and leaves the files. *)
LEMMA ExitIInv ==
  ASSUME IInv, Exit, failures' \in Nat
  PROVE  IInv'
<1>1. TypeOK'
  BY DEF IInv, Exit, TypeOK, users, Steps, NoKey
<1>2. FilesAgree' /\ SureCopies'
  BY DEF IInv, Exit, users, FilesAgree, SureCopies
<1>3. StepKnows' /\ ServedKey'
  BY DEF Exit, StepKnows, ServedKey, Persisting
<1> QED
  BY <1>1, <1>2, <1>3 DEF IInv

LEMMA StartIInv == IInv /\ Start => IInv'
<1> SUFFICES ASSUME IInv, Start PROVE IInv'
  OBVIOUS
<1>1. TypeOK'
  BY DEF IInv, Start, TypeOK, users, tor, Steps, NoKey
<1>2. FilesAgree' /\ SureCopies'
  BY DEF IInv, Start, users, FilesAgree, SureCopies
<1>3. StepKnows' /\ ServedKey'
  BY DEF Start, StepKnows, ServedKey, Persisting
<1> QED
  BY <1>1, <1>2, <1>3 DEF IInv

LEMMA ConnectIInv == IInv /\ Connect => IInv'
<1> SUFFICES ASSUME IInv, Connect PROVE IInv'
  OBVIOUS
<1>1. TypeOK'
  BY DEF IInv, Connect, TypeOK, users, server, Steps
<1>2. FilesAgree' /\ SureCopies'
  BY DEF IInv, Connect, users, FilesAgree, SureCopies
<1>3. StepKnows' /\ ServedKey'
  BY DEF IInv, Connect, server, StepKnows, ServedKey, Persisting
<1> QED
  BY <1>1, <1>2, <1>3 DEF IInv

(* A key that Tor takes from the file is the one in the file. *)
LEMMA AddFromFileIInv == IInv /\ AddFromFile => IInv'
<1> SUFFICES ASSUME IInv, AddFromFile PROVE IInv'
  OBVIOUS
<1>1. CASE ~ TorTakes(key) /\ Exit
  BY <1>1, ExitIInv DEF AddFromFile, IInv, TypeOK
<1>2. CASE TorTakes(key) /\ pc' = "up" /\ served' = key
           /\ UNCHANGED <<pub, priv, server, conn, dying, made, users>>
  <2>1. key \in Keys /\ priv = key
    BY <1>2, OnionKeysAssumption
    DEF AddFromFile, TorTakes, IInv, StepKnows, NoKey
  <2>2. TypeOK'
    BY <1>2, <2>1 DEF AddFromFile, IInv, TypeOK, server, users, Steps
  <2>3. FilesAgree' /\ SureCopies'
    BY <1>2 DEF IInv, users, FilesAgree, SureCopies
  <2>4. StepKnows' /\ ServedKey'
    BY <1>2, <2>1 DEF server, StepKnows, ServedKey, Persisting
  <2> QED
    BY <2>2, <2>3, <2>4 DEF IInv
<1> QED
  BY <1>1, <1>2 DEF AddFromFile

(* A new key is made only when there is no private file. *)
LEMMA AddNewIInv == IInv /\ AddNew => IInv'
<1> SUFFICES ASSUME IInv, AddNew PROVE IInv'
  OBVIOUS
<1>1. PICK k \in Keys : made' = made \cup {k} /\ served' = k /\ key' = k
                        /\ filled' = 1
  BY DEF AddNew
<1>2. priv = "absent"
  BY DEF AddNew, IInv, StepKnows
<1>3. TypeOK'
  BY <1>1 DEF AddNew, IInv, TypeOK, users, Steps
<1>4. FilesAgree' /\ SureCopies'
  BY DEF AddNew, IInv, users, FilesAgree, SureCopies
<1>5. StepKnows' /\ ServedKey'
  BY <1>1, <1>2 DEF AddNew, StepKnows, ServedKey, Persisting
<1> QED
  BY <1>3, <1>4, <1>5 DEF IInv

(* The four steps of tor_os_persist. *)
LEMMA PersistIInv == IInv /\ (OpenPub \/ WritePub \/ OpenPriv \/ WritePriv) => IInv'
<1> USE DEF server, tor, users, Steps, Files, Persisting
<1> SUFFICES ASSUME IInv, OpenPub \/ WritePub \/ OpenPriv \/ WritePriv
             PROVE  IInv'
  OBVIOUS
<1>1. CASE OpenPub
  <2>1. TypeOK'
    BY <1>1 DEF OpenPub, IInv, TypeOK
  <2>2. FilesAgree' /\ SureCopies'
    BY <1>1, OnionKeysAssumption
    DEF OpenPub, IInv, StepKnows, FilesAgree, SureCopies
  <2>3. StepKnows' /\ ServedKey'
    BY <1>1 DEF OpenPub, IInv, StepKnows, ServedKey
  <2> QED
    BY <2>1, <2>2, <2>3 DEF IInv
<1>2. CASE WritePub
  <2>1. TypeOK'
    BY <1>2 DEF WritePub, IInv, TypeOK, StepKnows
  <2>2. FilesAgree' /\ SureCopies'
    BY <1>2, OnionKeysAssumption
    DEF WritePub, IInv, StepKnows, FilesAgree, SureCopies
  <2>3. StepKnows' /\ ServedKey'
    BY <1>2 DEF WritePub, IInv, StepKnows, ServedKey
  <2> QED
    BY <2>1, <2>2, <2>3 DEF IInv
<1>3. CASE OpenPriv
  <2>1. TypeOK'
    BY <1>3 DEF OpenPriv, IInv, TypeOK
  <2>2. FilesAgree' /\ SureCopies'
    BY <1>3, OnionKeysAssumption
    DEF OpenPriv, IInv, StepKnows, FilesAgree, SureCopies
  <2>3. StepKnows' /\ ServedKey'
    BY <1>3 DEF OpenPriv, IInv, StepKnows, ServedKey
  <2> QED
    BY <2>1, <2>2, <2>3 DEF IInv
<1>4. CASE WritePriv
  <2>1. TypeOK'
    BY <1>4 DEF WritePriv, IInv, TypeOK, StepKnows
  <2>2. FilesAgree' /\ SureCopies'
    BY <1>4, OnionKeysAssumption
    DEF WritePriv, IInv, StepKnows, FilesAgree, SureCopies
  <2>3. StepKnows' /\ ServedKey'
    BY <1>4 DEF WritePriv, IInv, StepKnows, ServedKey
  <2> QED
    BY <2>1, <2>2, <2>3 DEF IInv
<1> QED
  BY <1>1, <1>2, <1>3, <1>4

-----------------------------------------------------------------------------
(* Tor and the client. *)

LEMMA TorIInv == IInv /\ (TorRestarts \/ TorDrops) => IInv'
<1> SUFFICES ASSUME IInv, TorRestarts \/ TorDrops PROVE IInv'
  OBVIOUS
<1>1. TypeOK'
  <2>1. CASE TorRestarts
    <3>1. conn' \in BOOLEAN /\ served' \in Keys \cup {NoKey} /\ dying' \subseteq Keys
      BY <2>1 DEF TorRestarts
    <3>2. failures' \in Nat
      BY <2>1 DEF TorRestarts, IInv, TypeOK
    <3> QED
      BY <2>1, <3>1, <3>2 DEF TorRestarts, IInv, TypeOK, server, users
  <2>2. CASE TorDrops
    <3>1. dying' \subseteq dying
      BY <2>2 DEF TorDrops
    <3> QED
      BY <2>2, <3>1 DEF TorDrops, IInv, TypeOK, server, users
  <2> QED
    BY <2>1, <2>2
<1>2. FilesAgree' /\ SureCopies'
  BY DEF TorRestarts, TorDrops, IInv, users, FilesAgree, SureCopies
<1>3. StepKnows' /\ ServedKey'
  BY DEF TorRestarts, TorDrops, IInv, server, StepKnows, ServedKey
<1> QED
  BY <1>1, <1>2, <1>3 DEF IInv

(* What is copied from a server that is up is its key. *)
LEMMA CopyIInv == IInv /\ Copy => IInv'
<1> SUFFICES ASSUME IInv, Copy PROVE IInv'
  OBVIOUS
<1>1. TypeOK'
  <2>1. copy' \in Copies
    BY DEF Copy, IInv, TypeOK, Copies
  <2> QED
    BY <2>1 DEF Copy, IInv, TypeOK, server, tor
<1>2. pc = "up" => pub = priv /\ priv \in Keys
  BY DEF IInv, StepKnows, FilesAgree
<1>3. FilesAgree' /\ SureCopies'
  <2>1. copy'.key = pub /\ (copy'.sure => pc = "up")
    BY DEF Copy
  <2>2. copy'.sure => priv' \in Keys /\ copy'.key = priv'
    BY <1>2, <2>1 DEF Copy
  <2>3. client'.sure => priv' \in Keys /\ client'.key = priv'
    BY DEF Copy, IInv, SureCopies
  <2> QED
    BY <2>2, <2>3 DEF Copy, IInv, FilesAgree, SureCopies
<1>4. StepKnows' /\ ServedKey'
  BY DEF Copy, IInv, server, tor, StepKnows, ServedKey
<1> QED
  BY <1>1, <1>3, <1>4 DEF IInv

LEMMA ClientStartsIInv == IInv /\ ClientStarts => IInv'
<1> SUFFICES ASSUME IInv, ClientStarts PROVE IInv'
  OBVIOUS
<1>1. TypeOK'
  BY DEF ClientStarts, IInv, TypeOK, server, tor, Copies
<1>2. FilesAgree' /\ SureCopies'
  BY DEF ClientStarts, IInv, FilesAgree, SureCopies
<1>3. StepKnows' /\ ServedKey'
  BY DEF ClientStarts, IInv, server, tor, StepKnows, ServedKey
<1> QED
  BY <1>1, <1>2, <1>3 DEF IInv

LEMMA NextIInv == IInv /\ [Next]_vars => IInv'
<1> SUFFICES ASSUME IInv, [Next]_vars PROVE IInv'
  OBVIOUS
<1>1. CASE UNCHANGED vars
  BY <1>1 DEF vars, server, tor, users, IInv, TypeOK, FilesAgree, StepKnows,
     ServedKey, SureCopies
<1>2. CASE AddNewFails \/ Fail
  <2>1. Exit /\ failures' \in Nat
    BY <1>2 DEF AddNewFails, Fail, IInv, TypeOK
  <2> QED
    BY <2>1, ExitIInv
<1> QED
  BY <1>1, <1>2, StartIInv, ConnectIInv, AddFromFileIInv, AddNewIInv,
     PersistIInv, TorIInv, CopyIInv, ClientStartsIInv DEF Next, Server

-----------------------------------------------------------------------------
(* The theorems. *)

(* The strengthened invariant holds in every reachable state. *)
THEOREM Invariant == Spec => []IInv
  BY InitIInv, NextIInv, PTL DEF Spec

(* The variables keep their types, and Tor is given no key but Tor's own. *)
THEOREM TypeCorrect == Spec => []TypeOK
<1>1. IInv => TypeOK
  BY DEF IInv
<1> QED
  BY <1>1, Invariant, PTL

(* The address a client was given by a server that was up is the address    *)
(* every later run serves, whatever fails between the steps that read and   *)
(* rewrite the two files.                                                   *)
THEOREM AddressIsKept == Spec => []AddressKept
<1>1. IInv => AddressKept
  BY DEF IInv, StepKnows, ServedKey, SureCopies, AddressKept
<1> QED
  BY <1>1, Invariant, PTL

(* Once the private file holds a key, no step of any run changes it: the    *)
(* server makes a key only when there is no file.                           *)
THEOREM KeyStays == Spec => [][(priv \in Keys) => (priv' = priv)]_vars
<1>1. ASSUME IInv, [Next]_vars, priv \in Keys
      PROVE  priv' = priv
  <2>1. ~ OpenPriv /\ ~ WritePriv
    BY <1>1, OnionKeysAssumption
    DEF IInv, StepKnows, OpenPriv, WritePriv, Persisting
  <2> QED
    BY <1>1, <2>1 DEF Next, Server, Start, Connect, AddFromFile, AddNew,
       AddNewFails, OpenPub, WritePub, Fail, TorRestarts, TorDrops, Copy,
       ClientStarts, Exit, vars
<1>2. IInv /\ [Next]_vars => [(priv \in Keys) => (priv' = priv)]_vars
  BY <1>1
<1> QED
  BY <1>2, Invariant, PTL DEF Spec

=============================================================================
