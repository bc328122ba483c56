-------------------------- MODULE ResManagerProofs --------------------------
(***************************************************************************)
(* Theorems about the resource manager of zfs, for any number of clients,  *)
(* connections and handles, any expiry and any number of messages.         *)
(***************************************************************************)
EXTENDS ResManager, TLAPS, SequenceTheorems, FiniteSetTheorems

-----------------------------------------------------------------------------
(* The inductive invariant.                                                *)

\* Clients with a resource.
Live == Elements(resources) \ {Listener}

\* What came, what may come and what was read are bounded together.
Typed == ResTypeOK /\ \A c \in Clients : inbox[c] + unsent[c] + res[c].rd_buf <= MaxMessages

\* m_resources holds the listening resource, and nothing twice.
OneEach ==
    /\ Listener \in Elements(resources)
    /\ \A i, j \in DOMAIN resources : resources[i] = resources[j] => i = j

\* A client is in one place: away, in the queue once, or with a resource.
OnePlace ==
    /\ \A i \in 1 .. Len(queue) : peer[queue[i]] # "away" /\ queue[i] \notin Live
    /\ \A i, j \in 1 .. Len(queue) : queue[i] = queue[j] => i = j
    /\ \A c \in Live : peer[c] # "away"

\* A handle is open for the client whose resource has it, and for no other.
OwnHandle ==
    /\ \A c \in Live : res[c].hsock \in Handles /\ owner[res[c].hsock] = c
    /\ \A h \in Handles : owner[h] # NoClient => owner[h] \in Live /\ res[owner[h]].hsock = h

Counted == nr_connections + Cardinality(Live) = NR_MAX_CONNECTIONS /\ sessions = Live

\* Nothing is reaped while somebody holds on to resources.
Held ==
    /\ at \in {"reap", "prepare", "select", "reap again"} => res_queue = <<>>
    /\ at \in {"reap", "prepare", "select", "reap again", "process"} => cur = End
    /\ Elements(res_queue) \subseteq Elements(resources)
    /\ cur # End => cur \in Elements(resources)

\* What is watched is open until select, whose bits are those of the owners of
\* then until the loop.
Seen ==
    /\ at = "select" => \A h \in watched : h # Listener => owner[h] # NoClient
    /\ at = "reap again" => \A h \in rdset : h # Listener => owner[h] \in ready

ManagerInv ==
    Typed /\ OneEach /\ OnePlace /\ OwnHandle /\ Counted /\ Held /\ Seen /\ BitsAreFresh

-----------------------------------------------------------------------------
(* The list and the set of its resources.                                  *)

LEMMA LiveClients == Typed => Live \subseteq Clients /\ IsFiniteSet(Live) /\ Cardinality(Live) \in Nat
<1> SUFFICES ASSUME Typed PROVE Live \subseteq Clients /\ IsFiniteSet(Live) /\ Cardinality(Live) \in Nat
  OBVIOUS
<1>0. resources \in Seq(Clients \cup {Listener})
  BY DEF Typed, ResTypeOK
<1>1. Live \subseteq Clients
  BY <1>0 DEF Live, Elements
<1>2. IsFiniteSet(Clients)
  BY ManagerAssumption
<1> QED BY <1>1, <1>2, FS_Subset, FS_CardinalityType

LEMMA DeadAreLive == Dead \subseteq Live /\ Listener \notin Dead
  BY DEF Dead, Live

\* The places in the list that stay.
Stays(dead) == {k \in DOMAIN resources : resources[k] \notin dead}

\* Remaining takes every one of them, and each once.
LEMMA RemainingTakesAll ==
    ASSUME NEW S, resources \in Seq(S), NEW dead, NEW keep \in Remaining(dead)
    PROVE  /\ Cardinality(Stays(dead)) \in Nat
           /\ keep \in [1 .. Cardinality(Stays(dead)) -> Stays(dead)]
           /\ \A k \in Stays(dead) : \E i \in 1 .. Cardinality(Stays(dead)) : keep[i] = k
           /\ \A i, j \in 1 .. Cardinality(Stays(dead)) : keep[i] = keep[j] => i = j
<1> DEFINE stays == Stays(dead)
           n == Cardinality(stays)
<1>1. stays \in SUBSET (1 .. Len(resources)) /\ Len(resources) \in Nat /\ stays \subseteq Int
  BY DEF Stays
<1>2. IsFiniteSet(stays) /\ n \in Nat
  <2>1. IsFiniteSet(1 .. Len(resources))
    BY <1>1, FS_Interval
  <2>2. IsFiniteSet(stays)
    BY <1>1, <2>1, FS_Subset
  <2> QED BY <2>2, FS_CardinalityType
<1>3. keep \in [1 .. n -> stays] /\ \A i, j \in 1 .. n : i < j => keep[i] < keep[j]
  BY DEF Remaining, Stays
<1> HIDE DEF n, stays
<1>4. \A i, j \in 1 .. n : keep[i] = keep[j] => i = j
  <2> SUFFICES ASSUME NEW i \in 1 .. n, NEW j \in 1 .. n, keep[i] = keep[j] PROVE i = j
    OBVIOUS
  <2>1. keep[i] \in stays /\ keep[i] \in Int
    BY <1>1, <1>3
  <2>2. ~(i < j) /\ ~(j < i)
    BY <1>3, <2>1
  <2> QED BY <1>2, <2>2
<1>5. keep \in Injection(1 .. n, stays)
  BY <1>3, <1>4 DEF Injection, IsInjective
<1>6. Cardinality(1 .. n) = n
  BY <1>2, FS_Interval
<1>7. keep \in Surjection(1 .. n, stays)
  BY <1>2, <1>5, <1>6, FS_Injection DEF n
<1>8. \A k \in stays : \E i \in 1 .. n : keep[i] = k
  BY <1>7 DEF Surjection
<1> QED BY <1>2, <1>3, <1>4, <1>8 DEF n, stays

LEMMA RemainingList ==
    ASSUME NEW S, resources \in Seq(S), OneEach, NEW dead, Listener \notin dead,
           NEW left, \E keep \in Remaining(dead) : left = [k \in DOMAIN keep |-> resources[keep[k]]]
    PROVE  /\ left \in Seq(S) /\ left # <<>>
           /\ Elements(left) = Elements(resources) \ dead
           /\ \A i, j \in DOMAIN left : left[i] = left[j] => i = j
<1> DEFINE stays == Stays(dead)
           n == Cardinality(stays)
<1>1. PICK keep \in Remaining(dead) : left = [k \in DOMAIN keep |-> resources[keep[k]]]
  OBVIOUS
<1>2. /\ n \in Nat /\ keep \in [1 .. n -> stays]
      /\ \A k \in stays : \E i \in 1 .. n : keep[i] = k
      /\ \A i, j \in 1 .. n : keep[i] = keep[j] => i = j
  BY RemainingTakesAll
<1>3. \A k : k \in stays <=> k \in DOMAIN resources /\ resources[k] \notin dead
  BY DEF Stays
<1> HIDE DEF stays, n
<1>4. DOMAIN left = 1 .. n /\ \A i \in 1 .. n : left[i] = resources[keep[i]]
  BY <1>1, <1>2
<1>5. \A i \in 1 .. n : keep[i] \in DOMAIN resources /\ left[i] \in S /\ left[i] \notin dead
  BY <1>2, <1>3, <1>4
<1>6. left \in Seq(S) /\ Len(left) = n
  <2>1. left \in [1 .. n -> S]
    BY <1>1, <1>2, <1>4, <1>5
  <2> QED BY <1>2, <2>1
<1>7. Elements(left) = Elements(resources) \ dead
  <2>1. Elements(left) \subseteq Elements(resources) \ dead
    BY <1>4, <1>5 DEF Elements
  <2>2. ASSUME NEW r \in Elements(resources) \ dead
        PROVE  r \in Elements(left)
    <3>1. PICK k \in DOMAIN resources : resources[k] = r
      BY DEF Elements
    <3>2. PICK i \in 1 .. n : keep[i] = k
      BY <1>2, <1>3, <3>1
    <3> QED BY <1>4, <3>1, <3>2 DEF Elements
  <2> QED BY <2>1, <2>2
<1>8. left # <<>>
  BY <1>7 DEF OneEach, Elements
<1>9. \A i, j \in DOMAIN left : left[i] = left[j] => i = j
  BY <1>2, <1>3, <1>4, <1>5 DEF OneEach
<1> QED BY <1>6, <1>7, <1>8, <1>9

\* After stays in the list.
LEMMA AfterStays ==
    ASSUME NEW r \in Elements(resources), NEW S, resources \in Seq(S), OneEach
    PROVE  /\ After(r) \in Elements(resources) \cup {End}
           /\ \A k \in DOMAIN resources :
                  resources[k] = After(r) /\ After(r) # End => \E i \in DOMAIN resources : resources[i] = r /\ i < k
<1> DEFINE k == CHOOSE i \in DOMAIN resources : resources[i] = r
<1>1. k \in DOMAIN resources /\ resources[k] = r
  BY DEF Elements
<1>2. After(r) = IF k = Len(resources) THEN End ELSE resources[k + 1]
  BY DEF After
<1> HIDE DEF k
<1>3. CASE k = Len(resources)
  BY <1>2, <1>3
<1>4. CASE k # Len(resources)
  <2>1. k + 1 \in DOMAIN resources /\ After(r) = resources[k + 1] /\ k \in Int
    BY <1>1, <1>2, <1>4
  <2>2. \A i \in DOMAIN resources : resources[i] = After(r) => i = k + 1
    BY <2>1 DEF OneEach
  <2> QED BY <1>1, <2>1, <2>2 DEF Elements
<1> QED BY <1>3, <1>4

\* A new resource is at the front; the others keep their order.
LEMMA AcceptedList ==
    ASSUME NEW S, resources \in Seq(S), NEW c \in S, resources' = <<>> \o <<c>> \o resources
    PROVE  /\ resources' \in Seq(S) /\ Len(resources') = Len(resources) + 1
           /\ resources'[1] = c /\ \A k \in 2 .. Len(resources') : resources'[k] = resources[k - 1]
           /\ Elements(resources') = Elements(resources) \cup {c}
<1>1. <<>> \o <<c>> = <<c>>
  OBVIOUS
<1>2. /\ resources' \in Seq(S) /\ Len(resources') = Len(resources) + 1
      /\ resources'[1] = c /\ \A k \in 2 .. Len(resources') : resources'[k] = resources[k - 1]
  BY <1>1
<1>3. \A k \in DOMAIN resources : k + 1 \in 2 .. Len(resources') /\ resources'[k + 1] = resources[k]
  BY <1>2
<1>4. \A k \in DOMAIN resources' : k = 1 \/ (k - 1 \in DOMAIN resources /\ resources'[k] = resources[k - 1])
  BY <1>2
<1>5. 1 \in DOMAIN resources' /\ \A k \in DOMAIN resources : k + 1 \in DOMAIN resources'
  BY <1>2
<1>6. Elements(resources') \subseteq Elements(resources) \cup {c}
  BY <1>2, <1>4 DEF Elements
<1>7. Elements(resources) \cup {c} \subseteq Elements(resources')
  <2>1. c \in Elements(resources')
    BY <1>2, <1>5 DEF Elements
  <2>2. ASSUME NEW k \in DOMAIN resources
        PROVE  resources[k] \in Elements(resources')
    BY <1>3, <1>5 DEF Elements
  <2> QED BY <2>1, <2>2 DEF Elements
<1> QED BY <1>2, <1>6, <1>7

LEMMA QueuedAtFront ==
    ASSUME NEW S, NEW q \in Seq(S), NEW r \in S
    PROVE  <<r>> \o q \in Seq(S) /\ Elements(<<r>> \o q) = Elements(q) \cup {r}
<1>1. /\ <<r>> \o q \in Seq(S) /\ Len(<<r>> \o q) = Len(q) + 1
      /\ (<<r>> \o q)[1] = r /\ \A k \in 2 .. Len(q) + 1 : (<<r>> \o q)[k] = q[k - 1]
  OBVIOUS
<1>2. \A k \in DOMAIN q : k + 1 \in 2 .. Len(q) + 1 /\ (<<r>> \o q)[k + 1] = q[k]
  BY <1>1
<1>3. \A k \in DOMAIN (<<r>> \o q) : k = 1 \/ (k - 1 \in DOMAIN q /\ (<<r>> \o q)[k] = q[k - 1])
  BY <1>1
<1>4. 1 \in DOMAIN (<<r>> \o q) /\ \A k \in DOMAIN q : k + 1 \in DOMAIN (<<r>> \o q)
  BY <1>1
<1> QED BY <1>1, <1>2, <1>3, <1>4 DEF Elements

-----------------------------------------------------------------------------
(* Types.                                                                  *)

ResInfo == [hsock : Handles \cup {Listener}, refcount : {0, 1}, expired : BOOLEAN,
            lastio : Ages, rd_buf : 0 .. MaxMessages]

LEMMA Numbers ==
    /\ MaxMessages \in Nat /\ 0 \in 0 .. MaxMessages /\ Expiry \in Nat
    /\ -1 \in Ages /\ 0 \in Ages /\ 0 \in 0 .. Expiry + 1
    /\ \A age \in 0 .. Expiry + 1 : age \in Ages /\ Older(age) \in 0 .. Expiry + 1
    /\ \A age \in Ages : Older(age) \in Ages
    /\ NR_MAX_CONNECTIONS \in Nat
<1>1. Cardinality(Handles) \in Nat
  BY ManagerAssumption, FS_CardinalityType
<1> QED BY <1>1, ManagerAssumption DEF Ages, Older

LEMMA ResTyped ==
    /\ NoRes \in ResInfo /\ NoRes.rd_buf = 0
    /\ \A h \in Handles : NewRes(h) \in ResInfo /\ NewRes(h).rd_buf = 0 /\ NewRes(h).hsock = h
  BY Numbers DEF NoRes, NewRes, ResInfo

\* The steps that leave the resources, the handles and the sessions alone.
Rests ==
    \/ Tick \/ PrepareSets \/ Select \/ SkipResource \/ LoopEnds
    \/ \E c \in Clients : ReadMessages(c) \/ ReadFails(c)
    \/ StartAccepting \/ StopAccepting \/ Process \/ NextTurn

LEMMA RestsLeave ==
    ASSUME Rests
    PROVE  UNCHANGED <<owner, queue, peer, unsent, resources, nr_connections, sessions>>
  BY DEF Rests, Tick, PrepareSets, Select, SkipResource, LoopEnds, ReadMessages, ReadFails, ReadFailsWith,
         StartAccepting, StopAccepting, Process, NextTurn, world, manager, loop

\* A resource keeps its handle; what is in it came from the client.
LEMMA RestsKeep ==
    ASSUME Typed, Rests
    PROVE  /\ res' \in [Clients -> ResInfo] /\ inbox' \in [Clients -> 0 .. MaxMessages]
           /\ \A c \in Clients : /\ res'[c].hsock = res[c].hsock
                                 /\ inbox'[c] + res'[c].rd_buf <= inbox[c] + res[c].rd_buf
<1>1. /\ res \in [Clients -> ResInfo] /\ inbox \in [Clients -> 0 .. MaxMessages]
      /\ unsent \in [Clients -> 0 .. MaxMessages] /\ tm \in Ages /\ sessions \subseteq Clients
      /\ MaxMessages \in Nat
  BY Numbers DEF Typed, ResTypeOK, ResInfo
<1>2. \A c \in Clients : /\ res[c] \in ResInfo /\ res[c].lastio \in Ages
                         /\ res[c].rd_buf \in Int /\ inbox[c] \in Int
                         /\ res[c].rd_buf \in 0 .. MaxMessages /\ inbox[c] \in 0 .. MaxMessages
  BY <1>1 DEF ResInfo
<1>3. ASSUME inbox' = inbox, DOMAIN res' = Clients, res' = [c \in Clients |-> res'[c]],
             \A c \in Clients : /\ res'[c] \in ResInfo /\ res'[c].hsock = res[c].hsock
                                /\ res'[c].rd_buf \in {0, res[c].rd_buf}
      PROVE  /\ res' \in [Clients -> ResInfo] /\ inbox' \in [Clients -> 0 .. MaxMessages]
             /\ \A c \in Clients : /\ res'[c].hsock = res[c].hsock
                                   /\ inbox'[c] + res'[c].rd_buf <= inbox[c] + res[c].rd_buf
  BY <1>1, <1>2, <1>3
<1>4. CASE Tick
  <2>1. inbox' = inbox /\ res' = [c \in Clients |-> [res[c] EXCEPT !.lastio = Older(@)]]
    BY <1>4 DEF Tick, world
  <2>2. ASSUME NEW c \in Clients
        PROVE  /\ res'[c] \in ResInfo /\ res'[c].hsock = res[c].hsock
               /\ res'[c].rd_buf \in {0, res[c].rd_buf}
    <3>1. res'[c] = [res[c] EXCEPT !.lastio = Older(res[c].lastio)] /\ Older(res[c].lastio) \in Ages
      BY <1>2, <2>1, Numbers
    <3> QED BY <1>2, <3>1 DEF ResInfo
  <2> QED BY <1>3, <2>1, <2>2
<1>5. CASE PrepareSets
  <2>1. /\ inbox' = inbox
        /\ res' = [c \in Clients |-> IF c \in Elements(resources) /\ res[c].lastio = -1
                                     THEN [res[c] EXCEPT !.lastio = 0] ELSE res[c]]
    BY <1>5 DEF PrepareSets, world
  <2>2. ASSUME NEW c \in Clients
        PROVE  /\ res'[c] \in ResInfo /\ res'[c].hsock = res[c].hsock
               /\ res'[c].rd_buf \in {0, res[c].rd_buf}
    <3>1. res'[c] = [res[c] EXCEPT !.lastio = 0] \/ res'[c] = res[c]
      BY <2>1
    <3> QED BY <1>2, <3>1, Numbers DEF ResInfo
  <2> QED BY <1>3, <2>1, <2>2
<1>6. ASSUME NEW c \in Clients, ReadMessages(c)
      PROVE  /\ res' \in [Clients -> ResInfo] /\ inbox' \in [Clients -> 0 .. MaxMessages]
             /\ \A d \in Clients : /\ res'[d].hsock = res[d].hsock
                                   /\ inbox'[d] + res'[d].rd_buf <= inbox[d] + res[d].rd_buf
  <2>1. PICK n \in 1 .. inbox[c] :
            /\ inbox' = [inbox EXCEPT ![c] = @ - n]
            /\ res' = [res EXCEPT ![c].rd_buf = @ + n, ![c].lastio = tm]
    BY <1>6 DEF ReadMessages
  <2>2. inbox[c] + unsent[c] + res[c].rd_buf <= MaxMessages /\ unsent[c] >= 0 /\ unsent[c] \in Int
    BY <1>1 DEF Typed
  <2>3. inbox[c] - n \in 0 .. MaxMessages /\ res[c].rd_buf + n \in 0 .. MaxMessages /\ n \in Int
    BY <1>1, <1>2, <2>2
  <2>4. /\ inbox'[c] = inbox[c] - n /\ res'[c] = [res[c] EXCEPT !.rd_buf = res[c].rd_buf + n, !.lastio = tm]
        /\ \A d \in Clients \ {c} : inbox'[d] = inbox[d] /\ res'[d] = res[d]
        /\ res' = [d \in Clients |-> res'[d]] /\ inbox' = [d \in Clients |-> inbox'[d]]
    BY <1>1, <1>2, <2>1 DEF ResInfo
  <2>5. res'[c] \in ResInfo /\ res'[c].hsock = res[c].hsock /\ res'[c].rd_buf = res[c].rd_buf + n
    BY <1>1, <1>2, <2>3, <2>4 DEF ResInfo
  <2>6. \A d \in Clients : /\ res'[d] \in ResInfo /\ inbox'[d] \in 0 .. MaxMessages
                           /\ res'[d].hsock = res[d].hsock
    BY <1>2, <2>3, <2>4, <2>5
  <2>7. \A d \in Clients : inbox'[d] + res'[d].rd_buf <= inbox[d] + res[d].rd_buf
    <3>1. inbox'[c] + res'[c].rd_buf = inbox[c] + res[c].rd_buf
      BY <1>2, <2>3, <2>4, <2>5
    <3>2. \A d \in Clients \ {c} : inbox'[d] + res'[d].rd_buf = inbox[d] + res[d].rd_buf
      BY <2>4
    <3>3. \A d \in Clients : inbox[d] + res[d].rd_buf \in Int
      BY <1>2
    <3> QED BY <3>1, <3>2, <3>3
  <2> QED BY <2>4, <2>6, <2>7
<1>7. ASSUME NEW c \in Clients, ReadFails(c)
      PROVE  /\ res' \in [Clients -> ResInfo] /\ inbox' \in [Clients -> 0 .. MaxMessages]
             /\ \A d \in Clients : /\ res'[d].hsock = res[d].hsock
                                   /\ inbox'[d] + res'[d].rd_buf <= inbox[d] + res[d].rd_buf
  <2>1. /\ inbox' = inbox
        /\ res' = [res EXCEPT ![c].expired = (peer[c] = "closed"), ![c].refcount = 0, ![c].lastio = tm]
    BY <1>7 DEF ReadFails, ReadFailsWith, world
  <2>2. /\ res'[c] = [res[c] EXCEPT !.expired = (peer[c] = "closed"), !.refcount = 0, !.lastio = tm]
        /\ \A d \in Clients \ {c} : res'[d] = res[d]
        /\ res' = [d \in Clients |-> res'[d]]
    BY <1>1, <1>2, <2>1 DEF ResInfo
  <2>3. res'[c] \in ResInfo /\ res'[c].hsock = res[c].hsock /\ res'[c].rd_buf = res[c].rd_buf
    <3>1. (peer[c] = "closed") \in BOOLEAN
      OBVIOUS
    <3> QED BY <1>1, <1>2, <2>2, <3>1 DEF ResInfo
  <2> QED BY <1>2, <1>3, <2>1, <2>2, <2>3
<1>8. CASE Process
  <2>1. /\ inbox' = inbox
        /\ res' = res \/ \E r \in Clients : res' = [res EXCEPT ![r].rd_buf = 0]
    BY <1>1, <1>8 DEF Process, world
  <2>2. ASSUME NEW r \in Clients, res' = [res EXCEPT ![r].rd_buf = 0]
        PROVE  /\ \A c \in Clients : res'[c] \in {res[c], [res[c] EXCEPT !.rd_buf = 0]}
               /\ res' = [d \in Clients |-> res'[d]]
    BY <1>1, <1>2, <2>2 DEF ResInfo
  <2>3. \A c \in Clients : res'[c] \in {res[c], [res[c] EXCEPT !.rd_buf = 0]}
    BY <2>1, <2>2
  <2>4. ASSUME NEW c \in Clients
        PROVE  /\ res'[c] \in ResInfo /\ res'[c].hsock = res[c].hsock
               /\ res'[c].rd_buf \in {0, res[c].rd_buf}
    BY <1>2, <2>3, Numbers DEF ResInfo
  <2>5. res' = [d \in Clients |-> res'[d]]
    BY <1>1, <2>1, <2>2
  <2> QED BY <1>3, <2>1, <2>4, <2>5
<1>9. CASE Select \/ SkipResource \/ LoopEnds \/ StartAccepting \/ StopAccepting \/ NextTurn
  <2>1. res' = res /\ inbox' = inbox
    BY <1>9 DEF Select, SkipResource, LoopEnds, StartAccepting, StopAccepting, NextTurn, manager, world
  <2> QED BY <1>1, <1>2, <2>1
<1> QED BY <1>4, <1>5, <1>6, <1>7, <1>8, <1>9 DEF Rests

\* The variables of the loop.
LoopTypeOK ==
    /\ at \in {"reap", "prepare", "select", "reap again", "loop", "accept", "process"}
    /\ tm \in 0 .. Expiry + 1
    /\ watched \subseteq Handles \cup {Listener} /\ rdset \subseteq Handles \cup {Listener}
    /\ nev \in Nat /\ cur \in Clients \cup {Listener, End}
    /\ res_queue \in Seq(Clients \cup {Listener}) /\ ready \subseteq Clients

LEMMA LoopTyped ==
    ASSUME Typed, OneEach, Held, Seen, Rests
    PROVE  LoopTypeOK'
<1>1. /\ LoopTypeOK /\ resources \in Seq(Clients \cup {Listener})
      /\ res \in [Clients -> ResInfo] /\ owner \in [Handles -> Clients \cup {NoClient}]
  BY DEF Typed, ResTypeOK, LoopTypeOK, ResInfo
<1>2. \A r \in Elements(resources) : r \in Clients \cup {Listener} /\ HandleOf(r) \in Handles \cup {Listener}
  BY <1>1 DEF Elements, HandleOf, ResInfo
<1>3. ASSUME NEW r \in Elements(resources) PROVE After(r) \in Clients \cup {Listener, End}
  BY <1>1, <1>2, AfterStays
<1>4. CASE Tick
  BY <1>1, <1>4, Numbers DEF Tick, LoopTypeOK
<1>5. CASE PrepareSets
  BY <1>1, <1>2, <1>5, Numbers DEF PrepareSets, LoopTypeOK
<1>6. CASE Select
  <2>1. rdset' \subseteq Handles \cup {Listener}
    BY <1>1, <1>6 DEF Select, LoopTypeOK
  <2>2. IsFiniteSet(Handles \cup {Listener})
    BY ManagerAssumption, FS_AddElement
  <2>3. nev' \in Nat
    <3>1. nev' = Cardinality(rdset')
      BY <1>6 DEF Select
    <3> QED BY <2>1, <2>2, <3>1, FS_Subset, FS_CardinalityType
  <2>4. ready' \subseteq Clients
    <3>1. ready' = {owner[h] : h \in rdset' \ {Listener}}
      BY <1>6 DEF Select
    <3>2. rdset' \subseteq watched /\ at = "select"
      BY <1>6 DEF Select
    <3>3. \A h \in rdset' \ {Listener} : h \in Handles /\ owner[h] # NoClient
      BY <2>1, <3>2 DEF Seen
    <3>4. \A h \in rdset' \ {Listener} : owner[h] \in Clients
      BY <1>1, <3>3
    <3> QED BY <3>1, <3>4
  <2> QED BY <1>1, <1>6, <2>1, <2>3, <2>4 DEF Select, LoopTypeOK
<1>7. CASE SkipResource
  <2>1. After(cur) \in Clients \cup {Listener, End}
    BY <1>3, <1>7 DEF SkipResource, Held
  <2> QED BY <1>1, <1>7, <2>1 DEF SkipResource, LoopTypeOK
<1>8. CASE LoopEnds
  BY <1>1, <1>8, Numbers DEF LoopEnds, LoopTypeOK
<1>9. ASSUME NEW c \in Clients, ReadMessages(c) \/ ReadFails(c)
      PROVE  LoopTypeOK'
  <2>1. IsSet(c) /\ cur' = After(c) /\ nev' = nev - 1
    BY <1>9 DEF ReadMessages, ReadFails, ReadFailsWith
  <2>2. c \in Elements(resources) /\ nev - 1 \in Nat
    BY <1>1, <2>1, ManagerAssumption DEF IsSet, Held, LoopTypeOK
  <2>3. After(c) \in Clients \cup {Listener, End}
    BY <1>3, <2>2
  <2>4. <<c>> \o res_queue \in Seq(Clients \cup {Listener})
    BY <1>1, QueuedAtFront DEF LoopTypeOK
  <2>5. /\ res_queue' = <<c>> \o res_queue \/ res_queue' = res_queue
        /\ UNCHANGED <<at, tm, watched, rdset, ready>>
    BY <1>9 DEF ReadMessages, ReadFails, ReadFailsWith
  <2> QED BY <1>1, <2>1, <2>2, <2>3, <2>4, <2>5 DEF LoopTypeOK
<1>10. CASE StartAccepting
  <2>1. Listener \in Elements(resources) /\ nev - 1 \in Nat
    BY <1>1, <1>10, ManagerAssumption DEF StartAccepting, IsSet, Held, LoopTypeOK
  <2>2. After(Listener) \in Clients \cup {Listener, End}
    BY <1>3, <2>1
  <2> QED BY <1>1, <1>10, <2>1, <2>2 DEF StartAccepting, LoopTypeOK
<1>11. CASE StopAccepting
  <2>1. <<Listener>> \o res_queue \in Seq(Clients \cup {Listener})
    BY <1>1, QueuedAtFront DEF LoopTypeOK
  <2> QED BY <1>1, <1>11, <2>1 DEF StopAccepting, LoopTypeOK
<1>12. CASE Process \/ NextTurn
  <2>1. res_queue # <<>> => Tail(res_queue) \in Seq(Clients \cup {Listener})
    BY <1>1, HeadTailProperties DEF LoopTypeOK
  <2>2. res_queue' \in Seq(Clients \cup {Listener})
    BY <1>1, <1>12, <2>1 DEF Process, NextTurn, LoopTypeOK
  <2>3. UNCHANGED <<tm, watched, rdset, nev, cur, ready>> /\ at' \in {at, "reap"}
    BY <1>12 DEF Process, NextTurn
  <2> QED BY <1>1, <2>2, <2>3 DEF LoopTypeOK
<1> QED BY <1>4, <1>5, <1>6, <1>7, <1>8, <1>9, <1>10, <1>11, <1>12 DEF Rests

-----------------------------------------------------------------------------
(* Reaping and accepting.                                                  *)

LEMMA ReapDoes ==
    ASSUME Typed, OneEach, Counted, Reap
    PROVE  /\ resources' \in Seq(Clients \cup {Listener}) /\ resources' # <<>>
           /\ OneEach' /\ Live' = Live \ Dead /\ Elements(resources') = Elements(resources) \ Dead
           /\ nr_connections' = nr_connections + Cardinality(Dead)
           /\ nr_connections' \in 0 .. NR_MAX_CONNECTIONS
           /\ Counted'
<1>1. /\ resources \in Seq(Clients \cup {Listener}) /\ nr_connections \in Nat
      /\ Dead \subseteq Live /\ Listener \notin Dead
      /\ NR_MAX_CONNECTIONS \in Int
  <2>1. resources \in Seq(Clients \cup {Listener}) /\ nr_connections \in 0 .. NR_MAX_CONNECTIONS
    BY DEF Typed, ResTypeOK
  <2> QED BY <2>1, DeadAreLive, Numbers
<1>2. /\ \E keep \in Remaining(Dead) : resources' = [k \in DOMAIN keep |-> resources[keep[k]]]
      /\ nr_connections' = nr_connections + Cardinality(Dead)
      /\ sessions' = sessions \ Dead
  BY DEF Reap, ReapWith
<1>3. /\ resources' \in Seq(Clients \cup {Listener}) /\ resources' # <<>>
      /\ Elements(resources') = Elements(resources) \ Dead
      /\ \A i, j \in DOMAIN resources' : resources'[i] = resources'[j] => i = j
  BY <1>1, <1>2, RemainingList
<1>4. OneEach' /\ Live' = Live \ Dead
  BY <1>1, <1>3 DEF OneEach, Live
<1>5. /\ IsFiniteSet(Live) /\ Cardinality(Live) \in Nat
  BY LiveClients
<1>6. Cardinality(Live \ Dead) = Cardinality(Live) - Cardinality(Dead)
  <2>1. Live \cap Dead = Dead
    BY <1>1
  <2> QED BY <1>5, <2>1, FS_Difference
<1>7. Cardinality(Dead) \in Nat /\ Cardinality(Dead) <= Cardinality(Live)
  <2>1. Dead \in SUBSET Live
    BY <1>1
  <2> QED BY <1>5, <2>1, FS_Subset, FS_CardinalityType
<1>8. nr_connections + Cardinality(Live) = NR_MAX_CONNECTIONS /\ sessions = Live
  BY DEF Counted
<1>9. nr_connections' \in 0 .. NR_MAX_CONNECTIONS
  BY <1>1, <1>2, <1>5, <1>7, <1>8
<1>10. Counted'
  <2>1. nr_connections' + Cardinality(Live') = NR_MAX_CONNECTIONS
    BY <1>1, <1>2, <1>4, <1>5, <1>6, <1>7, <1>8
  <2>2. sessions' = Live'
    BY <1>2, <1>4, <1>8
  <2> QED BY <2>1, <2>2 DEF Counted
<1> QED BY <1>2, <1>3, <1>4, <1>9, <1>10

LEMMA AcceptDoes ==
    ASSUME Typed, OneEach, OnePlace, Counted, AcceptOne
    PROVE  LET c == Head(queue)
           IN  /\ c \in Clients \ Live /\ peer[c] # "away" /\ queue # <<>>
               /\ resources' \in Seq(Clients \cup {Listener}) /\ Len(resources') = Len(resources) + 1
               /\ resources'[1] = c /\ \A k \in 2 .. Len(resources') : resources'[k] = resources[k - 1]
               /\ OneEach' /\ Live' = Live \cup {c} /\ Elements(resources') = Elements(resources) \cup {c}
               /\ nr_connections' \in 0 .. NR_MAX_CONNECTIONS
               /\ Counted'
<1> DEFINE c == Head(queue)
<1>1. /\ resources \in Seq(Clients \cup {Listener}) /\ nr_connections \in 0 .. NR_MAX_CONNECTIONS
      /\ queue \in Seq(Clients) /\ NR_MAX_CONNECTIONS \in Int /\ Listener \notin Clients
  <2>1. /\ resources \in Seq(Clients \cup {Listener}) /\ nr_connections \in 0 .. NR_MAX_CONNECTIONS
        /\ queue \in Seq(Clients)
    BY DEF Typed, ResTypeOK
  <2>2. Listener \notin Clients
    BY ManagerAssumption
  <2> QED BY <2>1, <2>2, Numbers
<1>2. /\ queue # <<>> /\ nr_connections > 0 /\ nr_connections' = nr_connections - 1
      /\ resources' = <<>> \o <<c>> \o resources /\ sessions' = sessions \cup {c}
  BY DEF AcceptOne, AcceptWith
<1>3. c \in Clients /\ c = queue[1] /\ 1 \in 1 .. Len(queue)
  BY <1>1, <1>2
<1>4. c \notin Live /\ peer[c] # "away"
  BY <1>3 DEF OnePlace
<1> HIDE DEF c
<1>5. /\ resources' \in Seq(Clients \cup {Listener}) /\ Len(resources') = Len(resources) + 1
      /\ resources'[1] = c /\ \A k \in 2 .. Len(resources') : resources'[k] = resources[k - 1]
      /\ Elements(resources') = Elements(resources) \cup {c}
  <2>1. c \in Clients \cup {Listener}
    BY <1>3
  <2>2. resources' = <<>> \o <<c>> \o resources
    BY <1>2
  <2> QED BY <1>1, <2>1, <2>2, AcceptedList
<1>6. Live' = Live \cup {c}
  BY <1>1, <1>3, <1>5 DEF Live
<1>7. OneEach'
  <2>1. Listener \in Elements(resources')
    BY <1>5 DEF OneEach
  <2>2. ASSUME NEW i \in DOMAIN resources', NEW j \in DOMAIN resources', resources'[i] = resources'[j]
        PROVE  i = j
    <3>1. \A k \in DOMAIN resources' : k \in Int /\ (k = 1 \/ (k \in 2 .. Len(resources') /\ k - 1 \in DOMAIN resources))
      BY <1>1, <1>5
    <3>2. \A k \in DOMAIN resources : resources[k] # c
      BY <1>1, <1>3, <1>4 DEF Live, Elements
    <3>3. CASE i = 1 \/ j = 1
      BY <1>5, <2>2, <3>1, <3>2, <3>3
    <3>4. CASE i # 1 /\ j # 1
      <4>1. resources[i - 1] = resources[j - 1] /\ i - 1 \in DOMAIN resources /\ j - 1 \in DOMAIN resources
        BY <1>5, <2>2, <3>1, <3>4
      <4>2. i - 1 = j - 1
        BY <4>1 DEF OneEach
      <4> QED BY <3>1, <4>2
    <3> QED BY <3>3, <3>4
  <2> QED BY <2>1, <2>2 DEF OneEach
<1>8. nr_connections' \in 0 .. NR_MAX_CONNECTIONS
  BY <1>1, <1>2
<1>9. Counted'
  <2>1. IsFiniteSet(Live) /\ Cardinality(Live) \in Nat
    BY LiveClients
  <2>2. Cardinality(Live \cup {c}) = Cardinality(Live) + 1
    BY <1>4, <2>1, FS_AddElement
  <2>3. nr_connections + Cardinality(Live) = NR_MAX_CONNECTIONS /\ sessions = Live
    BY DEF Counted
  <2>4. nr_connections' + Cardinality(Live') = NR_MAX_CONNECTIONS
    BY <1>1, <1>2, <1>6, <2>1, <2>2, <2>3
  <2> QED BY <1>2, <1>6, <2>3, <2>4 DEF Counted
<1> QED BY <1>2, <1>3, <1>4, <1>5, <1>6, <1>7, <1>8, <1>9 DEF c

ClientStep == \E c \in Clients : Connect(c) \/ SendMessage(c) \/ Leave(c)

LEMMA Cases == [Next]_vars => Rests \/ Reap \/ AcceptOne \/ ClientStep \/ UNCHANGED vars
  BY DEF Next, ServerStep, Rests, ClientStep

\* What clients do is not seen by the manager.
LEMMA ClientsLeave == ClientStep => UNCHANGED <<owner, manager, loop>>
  BY DEF ClientStep, Connect, SendMessage, Leave

-----------------------------------------------------------------------------
(* Types: the world, the manager and the loop.                             *)

WorldTypeOK ==
    /\ owner \in [Handles -> Clients \cup {NoClient}] /\ queue \in Seq(Clients)
    /\ peer \in [Clients -> {"away", "open", "closed", "gone"}]
    /\ unsent \in [Clients -> 0 .. MaxMessages] /\ inbox \in [Clients -> 0 .. MaxMessages]

ManagerTypeOK ==
    /\ resources \in Seq(Clients \cup {Listener}) /\ res \in [Clients -> ResInfo]
    /\ nr_connections \in 0 .. NR_MAX_CONNECTIONS /\ sessions \subseteq Clients

Bounded == \A c \in Clients : inbox[c] + unsent[c] + res[c].rd_buf <= MaxMessages

LEMMA TypedParts == Typed <=> WorldTypeOK /\ ManagerTypeOK /\ LoopTypeOK /\ Bounded
  BY DEF Typed, ResTypeOK, WorldTypeOK, ManagerTypeOK, LoopTypeOK, Bounded, ResInfo

LEMMA PartsTyped == WorldTypeOK' /\ ManagerTypeOK' /\ LoopTypeOK' /\ Bounded' => Typed'
  BY DEF Typed, ResTypeOK, WorldTypeOK, ManagerTypeOK, LoopTypeOK, Bounded, ResInfo

LEMMA BoundsAreNumbers ==
    ASSUME WorldTypeOK, ManagerTypeOK
    PROVE  /\ \A c \in Clients : /\ inbox[c] \in Nat /\ unsent[c] \in Nat /\ res[c].rd_buf \in Nat
                                 /\ inbox[c] <= MaxMessages /\ unsent[c] <= MaxMessages
           /\ MaxMessages \in Nat
  BY Numbers DEF WorldTypeOK, ManagerTypeOK, ResInfo

LEMMA RestsTyped ==
    ASSUME Typed, OneEach, Held, Seen, Rests
    PROVE  Typed'
<1>1. /\ UNCHANGED <<owner, queue, peer, unsent, resources, nr_connections, sessions>>
      /\ res' \in [Clients -> ResInfo] /\ inbox' \in [Clients -> 0 .. MaxMessages]
      /\ \A c \in Clients : inbox'[c] + res'[c].rd_buf <= inbox[c] + res[c].rd_buf
  BY RestsLeave, RestsKeep
<1>2. WorldTypeOK /\ ManagerTypeOK /\ Bounded
  BY TypedParts
<1>3. WorldTypeOK' /\ ManagerTypeOK'
  BY <1>1, <1>2 DEF WorldTypeOK, ManagerTypeOK
<1>4. Bounded'
  <2>1. \A c \in Clients : /\ inbox'[c] \in Int /\ res'[c].rd_buf \in Int
                           /\ inbox[c] \in Int /\ unsent[c] \in Int /\ res[c].rd_buf \in Int
    BY <1>1, <1>2, BoundsAreNumbers, Numbers DEF ResInfo
  <2> QED BY <1>1, <1>2, <2>1, Numbers DEF Bounded
<1>5. LoopTypeOK'
  BY LoopTyped
<1> QED BY <1>3, <1>4, <1>5, PartsTyped

LEMMA ReapTyped ==
    ASSUME Typed, OneEach, Counted, Reap
    PROVE  Typed'
<1>1. WorldTypeOK /\ ManagerTypeOK /\ LoopTypeOK /\ Bounded
  BY TypedParts
<1>2. /\ resources' \in Seq(Clients \cup {Listener}) /\ resources' # <<>>
      /\ nr_connections' \in 0 .. NR_MAX_CONNECTIONS
  BY ReapDoes
<1>3. /\ owner' = [h \in Handles |-> IF owner[h] \in Dead THEN NoClient ELSE owner[h]]
      /\ res' = [c \in Clients |-> IF c \in Dead THEN NoRes ELSE res[c]]
      /\ peer' = [c \in Clients |-> IF c \in Dead THEN "gone" ELSE peer[c]]
      /\ inbox' = [c \in Clients |-> IF c \in Dead THEN 0 ELSE inbox[c]]
      /\ unsent' = [c \in Clients |-> IF c \in Dead THEN 0 ELSE unsent[c]]
      /\ sessions' = sessions \ Dead /\ queue' = queue
      /\ \/ at = "reap" /\ at' = "prepare" /\ cur' = End
         \/ at = "reap again" /\ at' = "loop" /\ cur' = Head(resources')
      /\ UNCHANGED <<tm, watched, rdset, nev, res_queue, ready>>
  BY DEF Reap, ReapWith
<1>4. WorldTypeOK'
  BY <1>1, <1>3, Numbers DEF WorldTypeOK
<1>5. ManagerTypeOK'
  <2>1. res' \in [Clients -> ResInfo]
    BY <1>1, <1>3, ResTyped DEF ManagerTypeOK
  <2> QED BY <1>1, <1>2, <1>3, <2>1 DEF ManagerTypeOK
<1>6. LoopTypeOK'
  <2>1. Head(resources') \in Clients \cup {Listener}
    BY <1>2
  <2> QED BY <1>1, <1>3, <2>1 DEF LoopTypeOK
<1>7. Bounded'
  <2>1. \A c \in Clients : /\ res'[c].rd_buf \in {0, res[c].rd_buf} /\ inbox'[c] \in {0, inbox[c]}
                           /\ unsent'[c] \in {0, unsent[c]}
    BY <1>3, ResTyped
  <2>2. \A c \in Clients : /\ inbox'[c] <= inbox[c] /\ unsent'[c] <= unsent[c]
                           /\ res'[c].rd_buf <= res[c].rd_buf
                           /\ inbox'[c] \in Int /\ unsent'[c] \in Int /\ res'[c].rd_buf \in Int
    BY <1>1, <2>1, BoundsAreNumbers
  <2> QED BY <1>1, <2>2, BoundsAreNumbers DEF Bounded
<1> QED BY <1>4, <1>5, <1>6, <1>7, PartsTyped

LEMMA AcceptTyped ==
    ASSUME Typed, OneEach, OnePlace, Counted, AcceptOne
    PROVE  Typed'
<1> DEFINE c == Head(queue)
<1>1. WorldTypeOK /\ ManagerTypeOK /\ LoopTypeOK /\ Bounded
  BY TypedParts
<1>2. /\ c \in Clients /\ queue # <<>>
      /\ resources' \in Seq(Clients \cup {Listener})
      /\ nr_connections' \in 0 .. NR_MAX_CONNECTIONS
  BY AcceptDoes
<1>3. PICK h \in Handles : owner' = [owner EXCEPT ![h] = c] /\ res' = [res EXCEPT ![c] = NewRes(h)]
  BY DEF AcceptOne, AcceptWith
<1>4. sessions' = sessions \cup {c} /\ queue' = Tail(queue) /\ UNCHANGED <<peer, unsent, inbox, loop>>
  BY DEF AcceptOne, AcceptWith
<1>5. Tail(queue) \in Seq(Clients)
  BY <1>1, <1>2, HeadTailProperties DEF WorldTypeOK
<1> HIDE DEF c
<1>6. WorldTypeOK'
  BY <1>1, <1>2, <1>3, <1>4, <1>5 DEF WorldTypeOK
<1>7. res' \in [Clients -> ResInfo] /\ \A d \in Clients : res'[d].rd_buf \in {0, res[d].rd_buf}
  BY <1>1, <1>2, <1>3, ResTyped DEF ManagerTypeOK
<1>8. ManagerTypeOK'
  BY <1>1, <1>2, <1>4, <1>7 DEF ManagerTypeOK
<1>9. LoopTypeOK'
  BY <1>1, <1>4 DEF LoopTypeOK, loop
<1>10. Bounded'
  <2>1. \A d \in Clients : res'[d].rd_buf <= res[d].rd_buf /\ res'[d].rd_buf \in Int
    BY <1>1, <1>7, BoundsAreNumbers
  <2> QED BY <1>1, <1>4, <2>1, BoundsAreNumbers DEF Bounded
<1> QED BY <1>6, <1>8, <1>9, <1>10, PartsTyped

LEMMA ClientsTyped ==
    ASSUME Typed, ClientStep
    PROVE  Typed'
<1>1. WorldTypeOK /\ ManagerTypeOK /\ LoopTypeOK /\ Bounded
  BY TypedParts
<1>2. UNCHANGED <<owner, manager, loop>>
  BY ClientsLeave
<1>3. ManagerTypeOK' /\ LoopTypeOK'
  BY <1>1, <1>2 DEF ManagerTypeOK, LoopTypeOK, manager, loop
<1>4. WorldTypeOK' /\ Bounded'
  <2>1. PICK c \in Clients : Connect(c) \/ SendMessage(c) \/ Leave(c)
    BY DEF ClientStep
  <2>2. CASE Connect(c)
    <3>1. Append(queue, c) \in Seq(Clients)
      BY <1>1 DEF WorldTypeOK
    <3> QED BY <1>1, <1>2, <2>2, <3>1 DEF Connect, WorldTypeOK, Bounded, manager
  <2>3. CASE SendMessage(c)
    <3>1. /\ inbox[c] + unsent[c] + res[c].rd_buf <= MaxMessages /\ unsent[c] > 0
          /\ unsent' = [unsent EXCEPT ![c] = @ - 1] /\ inbox' = [inbox EXCEPT ![c] = @ + 1]
      BY <1>1, <2>3 DEF Bounded, SendMessage
    <3>2. unsent[c] - 1 \in 0 .. MaxMessages /\ inbox[c] + 1 \in 0 .. MaxMessages
      BY <1>1, <3>1, BoundsAreNumbers
    <3>3. WorldTypeOK'
      BY <1>1, <1>2, <2>3, <3>1, <3>2 DEF WorldTypeOK, SendMessage
    <3>4. Bounded'
      <4>1. /\ unsent'[c] = unsent[c] - 1 /\ inbox'[c] = inbox[c] + 1 /\ res' = res
            /\ \A d \in Clients \ {c} : unsent'[d] = unsent[d] /\ inbox'[d] = inbox[d]
        BY <1>1, <1>2, <3>1 DEF WorldTypeOK, manager
      <4>2. inbox'[c] + unsent'[c] + res'[c].rd_buf <= MaxMessages
        BY <1>1, <3>1, <4>1, BoundsAreNumbers
      <4> QED BY <1>1, <4>1, <4>2 DEF Bounded
    <3> QED BY <3>3, <3>4
  <2>4. CASE Leave(c)
    <3>1. /\ peer' = [peer EXCEPT ![c] = "closed"] /\ unsent' = [unsent EXCEPT ![c] = 0]
          /\ UNCHANGED <<owner, queue, inbox, res>>
      BY <1>2, <2>4 DEF Leave, manager
    <3>2. WorldTypeOK'
      BY <1>1, <3>1, Numbers DEF WorldTypeOK
    <3>3. \A d \in Clients : unsent'[d] <= unsent[d] /\ unsent'[d] \in Int
      BY <1>1, <3>1, BoundsAreNumbers DEF WorldTypeOK
    <3> QED BY <1>1, <3>1, <3>2, <3>3, BoundsAreNumbers DEF Bounded
  <2> QED BY <2>1, <2>2, <2>3, <2>4
<1> QED BY <1>3, <1>4, PartsTyped

LEMMA Typing == ManagerInv /\ [Next]_vars => Typed'
<1> SUFFICES ASSUME ManagerInv, [Next]_vars PROVE Typed'
  OBVIOUS
<1>1. CASE UNCHANGED vars
  BY <1>1 DEF vars, world, manager, loop, ManagerInv, Typed, ResTypeOK
<1> QED BY <1>1, Cases, RestsTyped, ReapTyped, AcceptTyped, ClientsTyped DEF ManagerInv

-----------------------------------------------------------------------------
(* The list, the books, and where clients are.                             *)

LEMMA BooksStep == ManagerInv /\ [Next]_vars => OneEach' /\ Counted'
<1> SUFFICES ASSUME ManagerInv, [Next]_vars PROVE OneEach' /\ Counted'
  OBVIOUS
<1> USE DEF ManagerInv
<1>1. CASE Reap
  BY <1>1, ReapDoes
<1>2. CASE AcceptOne
  BY <1>2, AcceptDoes
<1>3. CASE UNCHANGED <<resources, nr_connections, sessions>>
  BY <1>3 DEF OneEach, Counted, Live, Elements
<1>4. Rests \/ ClientStep \/ UNCHANGED vars => UNCHANGED <<resources, nr_connections, sessions>>
  BY RestsLeave, ClientsLeave DEF manager, vars
<1> QED BY <1>1, <1>2, <1>3, <1>4, Cases

LEMMA PlaceStep == ManagerInv /\ [Next]_vars => OnePlace'
<1> SUFFICES ASSUME ManagerInv, [Next]_vars PROVE OnePlace'
  OBVIOUS
<1> USE DEF ManagerInv
<1>1. /\ queue \in Seq(Clients) /\ Live \subseteq Clients
      /\ peer \in [Clients -> {"away", "open", "closed", "gone"}]
  BY LiveClients DEF Typed, ResTypeOK
<1>2. \A k \in 1 .. Len(queue) : queue[k] \in Clients
  BY <1>1
<1>3. CASE UNCHANGED <<resources, queue, peer>>
  BY <1>3 DEF OnePlace, Live, Elements
<1>4. CASE Rests \/ UNCHANGED vars
  BY <1>3, <1>4, RestsLeave DEF vars, world, manager
<1>5. CASE Reap
  <2>1. Live' = Live \ Dead
    BY <1>5, ReapDoes
  <2>2. queue' = queue /\ peer' = [c \in Clients |-> IF c \in Dead THEN "gone" ELSE peer[c]]
    BY <1>5 DEF Reap, ReapWith
  <2> QED BY <1>1, <1>2, <2>1, <2>2 DEF OnePlace
<1>6. CASE AcceptOne
  <2>1. /\ Live' = Live \cup {Head(queue)} /\ peer[Head(queue)] # "away" /\ queue # <<>>
    BY <1>6, AcceptDoes
  <2>2. queue' = Tail(queue) /\ peer' = peer
    BY <1>6 DEF AcceptOne, AcceptWith
  <2>3. /\ Head(queue) = queue[1] /\ 1 \in 1 .. Len(queue)
        /\ Len(queue') = Len(queue) - 1 /\ \A k \in 1 .. Len(queue') : queue'[k] = queue[k + 1]
    BY <1>1, <2>1, <2>2
  <2>4. \A k \in 1 .. Len(queue') : k \in Int /\ k + 1 \in 1 .. Len(queue) /\ k + 1 # 1
    BY <1>1, <2>3
  <2>5. \A k \in 1 .. Len(queue') : peer'[queue'[k]] # "away" /\ queue'[k] \notin Live'
    BY <2>1, <2>2, <2>3, <2>4 DEF OnePlace
  <2>6. \A j, k \in 1 .. Len(queue') : queue'[j] = queue'[k] => j = k
    <3> SUFFICES ASSUME NEW j \in 1 .. Len(queue'), NEW k \in 1 .. Len(queue'), queue'[j] = queue'[k]
                 PROVE  j = k
      OBVIOUS
    <3>1. j + 1 = k + 1
      BY <2>3, <2>4 DEF OnePlace
    <3> QED BY <2>4, <3>1
  <2> QED BY <2>1, <2>2, <2>5, <2>6 DEF OnePlace
<1>7. CASE ClientStep
  <2>1. PICK c \in Clients : Connect(c) \/ SendMessage(c) \/ Leave(c)
    BY <1>7 DEF ClientStep
  <2>2. resources' = resources /\ Live' = Live
    BY <1>7, ClientsLeave DEF manager, Live, Elements
  <2>3. CASE Connect(c)
    <3>1. peer[c] = "away" /\ peer' = [peer EXCEPT ![c] = "open"] /\ queue' = Append(queue, c)
      BY <2>3 DEF Connect
    <3>2. c \notin Live /\ \A k \in 1 .. Len(queue) : queue[k] # c
      BY <3>1 DEF OnePlace
    <3>3. /\ Len(queue') = Len(queue) + 1 /\ queue'[Len(queue) + 1] = c
          /\ \A k \in 1 .. Len(queue) : queue'[k] = queue[k]
          /\ \A k \in 1 .. Len(queue') : k \in 1 .. Len(queue) \/ k = Len(queue) + 1
      BY <1>1, <3>1
    <3>4. \A d \in Clients : peer[d] # "away" \/ d = c => peer'[d] # "away"
      BY <1>1, <3>1
    <3>5. \A k \in 1 .. Len(queue') : peer'[queue'[k]] # "away" /\ queue'[k] \notin Live'
      BY <1>2, <2>2, <3>2, <3>3, <3>4 DEF OnePlace
    <3>6. \A j, k \in 1 .. Len(queue') : queue'[j] = queue'[k] => j = k
      BY <3>2, <3>3 DEF OnePlace
    <3> QED BY <1>1, <2>2, <3>4, <3>5, <3>6 DEF OnePlace
  <2>4. CASE SendMessage(c)
    BY <1>3, <2>2, <2>4 DEF SendMessage
  <2>5. CASE Leave(c)
    <3>1. queue' = queue /\ peer' = [peer EXCEPT ![c] = "closed"]
      BY <2>5 DEF Leave
    <3> QED BY <1>1, <1>2, <2>2, <3>1 DEF OnePlace
  <2> QED BY <2>1, <2>3, <2>4, <2>5
<1> QED BY <1>4, <1>5, <1>6, <1>7, Cases

\* A resource that is reaped takes its handle with it; one that is created gets a
\* handle nobody has.
LEMMA HandleStep == ManagerInv /\ [Next]_vars => OwnHandle'
<1> SUFFICES ASSUME ManagerInv, [Next]_vars PROVE OwnHandle'
  OBVIOUS
<1> USE DEF ManagerInv
<1>1. /\ Live \subseteq Clients /\ NoClient \notin Clients
      /\ owner \in [Handles -> Clients \cup {NoClient}] /\ res \in [Clients -> ResInfo]
  BY LiveClients, ManagerAssumption DEF Typed, ResTypeOK, ResInfo
<1>2. CASE UNCHANGED <<owner, resources>> /\ \A c \in Clients : res'[c].hsock = res[c].hsock
  BY <1>1, <1>2 DEF OwnHandle, Live, Elements
<1>3. CASE Rests
  BY <1>2, <1>3, RestsLeave, RestsKeep
<1>4. CASE ClientStep \/ UNCHANGED vars
  BY <1>2, <1>4, ClientsLeave DEF vars, world, manager
<1>5. CASE Reap
  <2>1. Live' = Live \ Dead
    BY <1>5, ReapDoes
  <2>2. /\ owner' = [h \in Handles |-> IF owner[h] \in Dead THEN NoClient ELSE owner[h]]
        /\ res' = [c \in Clients |-> IF c \in Dead THEN NoRes ELSE res[c]]
    BY <1>5 DEF Reap, ReapWith
  <2> QED BY <1>1, <2>1, <2>2 DEF OwnHandle
<1>6. CASE AcceptOne
  <2> DEFINE c == Head(queue)
  <2>1. c \in Clients \ Live /\ Live' = Live \cup {c}
    BY <1>6, AcceptDoes
  <2>2. PICK h \in Handles : /\ owner[h] = NoClient
                             /\ owner' = [owner EXCEPT ![h] = c] /\ res' = [res EXCEPT ![c] = NewRes(h)]
    BY <1>6 DEF AcceptOne, AcceptWith
  <2> HIDE DEF c
  <2>3. res'[c].hsock = h /\ \A d \in Live : res'[d] = res[d]
    BY <1>1, <2>1, <2>2, ResTyped
  <2> QED BY <1>1, <2>1, <2>2, <2>3 DEF OwnHandle
<1> QED BY <1>3, <1>4, <1>5, <1>6, Cases

-----------------------------------------------------------------------------
(* What the loop holds on to.                                              *)

\* The loop goes from a resource to the one behind it.
LoopMoves(r) == at = "loop" /\ at' \in {"loop", "accept"} /\ cur = r /\ cur' = After(r)

LEMMA HeldStep == ManagerInv /\ [Next]_vars => Held'
<1> SUFFICES ASSUME ManagerInv, [Next]_vars PROVE Held'
  OBVIOUS
<1> USE DEF ManagerInv
<1>1. /\ resources \in Seq(Clients \cup {Listener}) /\ res_queue \in Seq(Clients \cup {Listener})
      /\ Listener \in Elements(resources)
  BY DEF Typed, ResTypeOK, OneEach
<1>2. CASE UNCHANGED <<resources, at, cur, res_queue>>
  BY <1>2 DEF Held, Elements
<1>3. CASE UNCHANGED vars \/ ClientStep \/ Tick
  BY <1>2, <1>3, ClientsLeave DEF vars, manager, loop, Tick
<1>4. ASSUME Rests PROVE resources' = resources
  BY <1>4, RestsLeave
<1>5. CASE PrepareSets \/ Select \/ LoopEnds \/ NextTurn
  <2>1. resources' = resources /\ res_queue' = res_queue /\ cur' \in {cur, End}
    BY <1>4, <1>5 DEF Rests, PrepareSets, Select, LoopEnds, NextTurn, manager
  <2>2. /\ at' \in {"reap", "prepare", "select", "reap again"} => res_queue = <<>>
        /\ at' \in {"reap", "prepare", "select", "reap again", "process"} => cur' = End
    BY <1>5 DEF PrepareSets, Select, LoopEnds, NextTurn, Held
  <2> QED BY <2>1, <2>2 DEF Held, Elements
<1>6. ASSUME NEW r \in Elements(resources), LoopMoves(r), resources' = resources,
             res_queue' = <<r>> \o res_queue \/ res_queue' = res_queue
      PROVE  Held'
  <2>1. Elements(res_queue') \subseteq Elements(resources)
    <3>1. r \in Clients \cup {Listener}
      BY <1>1 DEF Elements
    <3>2. Elements(<<r>> \o res_queue) = Elements(res_queue) \cup {r}
      BY <1>1, <3>1, QueuedAtFront
    <3> QED BY <1>6, <3>2 DEF Held
  <2>2. After(r) \in Elements(resources) \cup {End}
    BY <1>1, <1>6, AfterStays
  <2> QED BY <1>6, <2>1, <2>2 DEF LoopMoves, Held
<1>7. CASE SkipResource
  <2>1. LoopMoves(cur) /\ resources' = resources /\ res_queue' = res_queue /\ cur \in Elements(resources)
    BY <1>7 DEF SkipResource, LoopMoves, Held, manager
  <2> QED BY <1>6, <2>1
<1>8. ASSUME NEW c \in Clients, ReadMessages(c) \/ ReadFails(c)
      PROVE  Held'
  <2>1. /\ LoopMoves(c) /\ resources' = resources /\ c # End /\ cur = c
        /\ res_queue' = <<c>> \o res_queue \/ res_queue' = res_queue
    BY <1>8, ManagerAssumption DEF ReadMessages, ReadFails, ReadFailsWith, IsSet, LoopMoves
  <2>2. c \in Elements(resources)
    BY <2>1 DEF Held
  <2> QED BY <1>6, <2>1, <2>2
<1>9. CASE StartAccepting
  <2>1. LoopMoves(Listener) /\ resources' = resources /\ res_queue' = res_queue
    BY <1>9 DEF StartAccepting, IsSet, LoopMoves, manager
  <2> QED BY <1>1, <1>6, <2>1
<1>10. CASE StopAccepting
  <2>1. /\ at' = "loop" /\ res_queue' = <<Listener>> \o res_queue /\ cur' = cur /\ resources' = resources
    BY <1>10 DEF StopAccepting, manager
  <2>2. Elements(res_queue') = Elements(res_queue) \cup {Listener}
    BY <1>1, <2>1, QueuedAtFront
  <2> QED BY <1>1, <2>1, <2>2 DEF Held
<1>11. CASE Process
  <2>1. /\ at = "process" /\ at' = at /\ cur' = cur /\ resources' = resources
        /\ res_queue # <<>> /\ res_queue' = Tail(res_queue)
    BY <1>11 DEF Process
  <2>2. \A k \in 1 .. Len(res_queue') : res_queue'[k] = res_queue[k + 1] /\ k + 1 \in 1 .. Len(res_queue)
    BY <1>1, <2>1
  <2>3. DOMAIN res_queue' = 1 .. Len(res_queue') /\ DOMAIN res_queue = 1 .. Len(res_queue)
    BY <1>1, <2>1
  <2>4. Elements(res_queue') \subseteq Elements(res_queue)
    BY <2>2, <2>3 DEF Elements
  <2> QED BY <2>1, <2>4 DEF Held
<1>12. CASE Reap
  <2>1. res_queue = <<>> /\ res_queue' = <<>>
    BY <1>12 DEF Reap, ReapWith, Held
  <2>2. resources' # <<>> /\ resources' \in Seq(Clients \cup {Listener})
    BY <1>12, ReapDoes
  <2>3. Head(resources') \in Elements(resources')
    BY <2>2 DEF Elements
  <2>4. \/ at' = "prepare" /\ cur' = End
        \/ at' = "loop" /\ cur' = Head(resources')
    BY <1>12 DEF Reap, ReapWith
  <2>5. Elements(res_queue') = {}
    BY <2>1 DEF Elements
  <2> QED BY <2>1, <2>3, <2>4, <2>5 DEF Held
<1>13. CASE AcceptOne
  <2>1. Elements(resources) \subseteq Elements(resources')
    BY <1>13, AcceptDoes
  <2>2. at = "accept" /\ UNCHANGED <<at, cur, res_queue>>
    BY <1>13 DEF AcceptOne, AcceptWith, loop
  <2> QED BY <2>1, <2>2 DEF Held
<1> QED BY <1>3, <1>5, <1>7, <1>8, <1>9, <1>10, <1>11, <1>12, <1>13, Cases DEF Rests

LEMMA SeenStep == ManagerInv /\ [Next]_vars => Seen'
<1> SUFFICES ASSUME ManagerInv, [Next]_vars PROVE Seen'
  OBVIOUS
<1> USE DEF ManagerInv
<1>1. CASE UNCHANGED <<owner, at, watched, rdset, ready>>
  BY <1>1 DEF Seen
<1>2. CASE UNCHANGED vars \/ ClientStep \/ Tick
  BY <1>1, <1>2, ClientsLeave DEF vars, world, manager, loop, Tick
<1>3. CASE PrepareSets
  <2>1. /\ at' = "select" /\ owner' = owner /\ watched' = {HandleOf(r) : r \in Elements(resources)}
    BY <1>3 DEF PrepareSets, world
  <2>2. \A r \in Elements(resources) : HandleOf(r) # Listener => owner[HandleOf(r)] = r /\ r \in Live
    BY DEF HandleOf, OwnHandle, Live
  <2>3. NoClient \notin Live
    BY LiveClients, ManagerAssumption
  <2> QED BY <2>1, <2>2, <2>3 DEF Seen
<1>4. CASE Select
  <2>1. at' = "reap again" /\ owner' = owner /\ ready' = {owner[h] : h \in rdset' \ {Listener}}
    BY <1>4 DEF Select, world
  <2> QED BY <2>1 DEF Seen
<1>5. ASSUME at' \notin {"select", "reap again"} PROVE Seen'
  BY <1>5 DEF Seen
<1>6. SkipResource \/ LoopEnds \/ StartAccepting \/ StopAccepting \/ Process \/ NextTurn
      \/ Reap \/ AcceptOne => at' \notin {"select", "reap again"}
  BY DEF SkipResource, LoopEnds, StartAccepting, StopAccepting, Process, NextTurn,
         Reap, ReapWith, AcceptOne, AcceptWith, loop
<1>7. ASSUME NEW c \in Clients, ReadMessages(c) \/ ReadFails(c)
      PROVE  at' \notin {"select", "reap again"}
  BY <1>7 DEF ReadMessages, ReadFails, ReadFailsWith, IsSet
<1> QED BY <1>2, <1>3, <1>4, <1>5, <1>6, <1>7, Cases DEF Rests

\* New resources are before the one the loop is at: what the loop has still to
\* visit was there when select looked.
LEMMA FreshStep == ManagerInv /\ [Next]_vars => BitsAreFresh'
<1> SUFFICES ASSUME ManagerInv, [Next]_vars PROVE BitsAreFresh'
  OBVIOUS
<1> USE DEF ManagerInv
<1>1. /\ resources \in Seq(Clients \cup {Listener}) /\ res \in [Clients -> ResInfo]
      /\ Live \subseteq Clients /\ Listener \notin Clients /\ End \notin Clients \cup {Listener}
      /\ Listener \notin Handles
  BY LiveClients, ManagerAssumption DEF Typed, ResTypeOK, ResInfo
<1>2. \A k \in DOMAIN resources : resources[k] # Listener => resources[k] \in Live /\ resources[k] \in Clients
  BY <1>1 DEF Live, Elements
<1>3. CASE /\ UNCHANGED <<resources, rdset, ready, cur>> /\ (at' \in {"loop", "accept"} => at \in {"loop", "accept"})
           /\ \A c \in Clients : res'[c].hsock = res[c].hsock
  BY <1>2, <1>3 DEF BitsAreFresh
<1>4. CASE UNCHANGED vars \/ ClientStep
  BY <1>3, <1>4, ClientsLeave DEF vars, manager, loop
<1>5. ASSUME Rests PROVE resources' = resources /\ \A c \in Clients : res'[c].hsock = res[c].hsock
  BY <1>5, RestsLeave, RestsKeep
<1>6. CASE Tick \/ StopAccepting
  <2>1. CASE Tick
    BY <1>3, <1>5, <2>1 DEF Rests, Tick
  <2>2. CASE StopAccepting
    BY <1>3, <1>5, <2>2 DEF Rests, StopAccepting
  <2> QED BY <1>6, <2>1, <2>2
<1>7. CASE PrepareSets \/ Select \/ LoopEnds \/ Process \/ NextTurn
  <2>1. at' \notin {"loop", "accept"}
    BY <1>7 DEF PrepareSets, Select, LoopEnds, Process, NextTurn
  <2> QED BY <2>1 DEF BitsAreFresh
<1>8. ASSUME NEW r \in Elements(resources), LoopMoves(r), Rests, UNCHANGED <<rdset, ready>>
      PROVE  BitsAreFresh'
  <2>1. \A k \in DOMAIN resources : resources[k] = cur' /\ cur' # End
                                    => \E i \in DOMAIN resources : resources[i] = r /\ i < k
    BY <1>1, <1>8, AfterStays DEF LoopMoves
  <2>2. r # End
    BY <1>1, <1>8 DEF Elements
  <2> SUFFICES ASSUME cur' # End, NEW k \in DOMAIN resources, NEW j \in DOMAIN resources,
                      resources[k] = cur', j >= k, resources[j] # Listener,
                      res'[resources[j]].hsock \in rdset
               PROVE  resources[j] \in ready
    BY <1>5, <1>8 DEF BitsAreFresh
  <2>3. PICK i \in DOMAIN resources : resources[i] = r /\ i < k
    BY <2>1
  <2>4. j >= i /\ res[resources[j]].hsock \in rdset
    BY <1>1, <1>2, <1>5, <1>8, <2>3
  <2> QED BY <1>8, <2>2, <2>3, <2>4 DEF BitsAreFresh, LoopMoves
<1>9. CASE SkipResource
  <2>1. LoopMoves(cur) /\ cur \in Elements(resources) /\ UNCHANGED <<rdset, ready>>
    BY <1>9 DEF SkipResource, LoopMoves, Held
  <2> QED BY <1>8, <1>9, <2>1 DEF Rests
<1>10. ASSUME NEW c \in Clients, ReadMessages(c) \/ ReadFails(c)
       PROVE  BitsAreFresh'
  <2>1. LoopMoves(c) /\ cur = c /\ c # End /\ UNCHANGED <<rdset, ready>>
    BY <1>1, <1>10 DEF ReadMessages, ReadFails, ReadFailsWith, IsSet, LoopMoves
  <2>2. c \in Elements(resources)
    BY <2>1 DEF Held
  <2> QED BY <1>8, <1>10, <2>1, <2>2 DEF Rests
<1>11. CASE StartAccepting
  <2>1. LoopMoves(Listener) /\ UNCHANGED <<rdset, ready>>
    BY <1>11 DEF StartAccepting, IsSet, LoopMoves
  <2> QED BY <1>8, <1>11, <2>1 DEF Rests, OneEach
<1>12. CASE Reap
  <2>1. /\ Live' = Live \ Dead
    BY <1>12, ReapDoes
  <2>2. /\ res' = [c \in Clients |-> IF c \in Dead THEN NoRes ELSE res[c]]
        /\ UNCHANGED <<rdset, ready>>
        /\ at' \in {"loop", "accept"} => at = "reap again"
    BY <1>12 DEF Reap, ReapWith
  <2>3. ASSUME NEW c \in Live', at = "reap again", res'[c].hsock \in rdset
        PROVE  c \in ready
    <3>1. c \in Live /\ res'[c] = res[c]
      BY <1>1, <2>1, <2>2
    <3>2. res[c].hsock \in Handles /\ owner[res[c].hsock] = c
      BY <3>1 DEF OwnHandle
    <3> QED BY <1>1, <2>3, <3>1, <3>2 DEF Seen
  <2>4. \A j \in DOMAIN resources' : resources'[j] # Listener => resources'[j] \in Live'
    BY DEF Live, Elements
  <2>5. ASSUME at' \in {"loop", "accept"}, NEW j \in DOMAIN resources', resources'[j] # Listener,
               res'[resources'[j]].hsock \in rdset'
        PROVE  resources'[j] \in ready'
    BY <2>2, <2>3, <2>4, <2>5
  <2> QED BY <2>5 DEF BitsAreFresh
<1>13. CASE AcceptOne
  <2> DEFINE c == Head(queue)
  <2>1. /\ c \in Clients \ Live
        /\ resources' \in Seq(Clients \cup {Listener}) /\ Len(resources') = Len(resources) + 1
        /\ resources'[1] = c /\ \A k \in 2 .. Len(resources') : resources'[k] = resources[k - 1]
    BY <1>13, AcceptDoes
  <2>2. /\ UNCHANGED <<at, cur, rdset, ready>> /\ at = "accept"
        /\ \E h \in Handles : res' = [res EXCEPT ![c] = NewRes(h)]
    BY <1>13 DEF AcceptOne, AcceptWith, loop
  <2> HIDE DEF c
  <2>3. \A k \in DOMAIN resources' : k = 1 \/ (/\ k \in 2 .. Len(resources') /\ k - 1 \in DOMAIN resources
                                              /\ k \in Int)
    BY <1>1, <2>1
  <2> SUFFICES ASSUME cur # End, NEW k \in DOMAIN resources', NEW j \in DOMAIN resources',
                      resources'[k] = cur, j >= k, resources'[j] # Listener,
                      res'[resources'[j]].hsock \in rdset
               PROVE  resources'[j] \in ready
    BY <2>2 DEF BitsAreFresh
  <2>4. k # 1
    BY <1>1, <2>1 DEF Held, Live
  <2>5. j # 1 /\ j - 1 >= k - 1
    BY <2>3, <2>4
  <2>6. /\ k - 1 \in DOMAIN resources /\ resources[k - 1] = cur
        /\ j - 1 \in DOMAIN resources /\ resources[j - 1] = resources'[j]
    BY <2>1, <2>3, <2>4, <2>5
  <2>7. res'[resources'[j]] = res[resources'[j]]
    <3>1. resources'[j] \in Live
      BY <1>2, <2>6
    <3> QED BY <1>1, <2>1, <2>2, <3>1
  <2> QED BY <2>2, <2>5, <2>6, <2>7 DEF BitsAreFresh
<1> QED BY <1>4, <1>6, <1>7, <1>9, <1>10, <1>11, <1>12, <1>13, Cases DEF Rests

-----------------------------------------------------------------------------
(* The invariant, and what follows from it.                                *)

LEMMA ManagerInvInit == Init => ManagerInv
<1> SUFFICES ASSUME Init PROVE ManagerInv
  OBVIOUS
<1>1. Elements(resources) = {Listener} /\ Live = {} /\ resources = <<Listener>>
  BY DEF Init, Elements, Live
<1>2. res \in [Clients -> ResInfo] /\ \A c \in Clients : res[c].rd_buf = 0
  BY ResTyped DEF Init
<1>3. Typed
  <2>1. WorldTypeOK
    BY Numbers DEF Init, WorldTypeOK
  <2>2. ManagerTypeOK
    BY <1>1, <1>2, Numbers DEF Init, ManagerTypeOK
  <2>3. LoopTypeOK
    BY Numbers DEF Init, LoopTypeOK
  <2>4. Bounded
    BY <1>2, Numbers DEF Init, Bounded
  <2> QED BY <2>1, <2>2, <2>3, <2>4, TypedParts
<1>4. OneEach
  BY <1>1 DEF OneEach
<1>5. OnePlace /\ OwnHandle
  BY <1>1 DEF Init, OnePlace, OwnHandle
<1>6. Counted
  BY <1>1, FS_EmptySet, Numbers DEF Init, Counted
<1>7. Held
  <2>1. Elements(res_queue) = {}
    BY DEF Init, Elements
  <2> QED BY <2>1 DEF Init, Held
<1>8. Seen /\ BitsAreFresh
  BY DEF Init, Seen, BitsAreFresh
<1> QED BY <1>3, <1>4, <1>5, <1>6, <1>7, <1>8 DEF ManagerInv

LEMMA ManagerInvStep == ManagerInv /\ [Next]_vars => ManagerInv'
  BY Typing, BooksStep, PlaceStep, HandleStep, HeldStep, SeenStep, FreshStep DEF ManagerInv

LEMMA ManagerInvHolds == Spec => []ManagerInv
  BY ManagerInvInit, ManagerInvStep, PTL DEF Spec

\* The list is as long as the resources in it are many.
LEMMA ListLength == ManagerInv => Len(resources) = Cardinality(Live) + 1
<1> SUFFICES ASSUME ManagerInv PROVE Len(resources) = Cardinality(Live) + 1
  OBVIOUS
<1>1. /\ resources \in Seq(Clients \cup {Listener}) /\ Listener \in Elements(resources)
      /\ \A i, j \in DOMAIN resources : resources[i] = resources[j] => i = j
  BY DEF ManagerInv, Typed, ResTypeOK, OneEach
<1>2. IsFiniteSet(Live) /\ Listener \notin Live
  BY LiveClients DEF ManagerInv, Live
<1>3. Elements(resources) = Live \cup {Listener}
  BY <1>1 DEF Live
<1>4. Cardinality(Elements(resources)) = Cardinality(Live) + 1
  BY <1>2, <1>3, FS_AddElement
<1>5. Len(resources) \in Nat /\ DOMAIN resources = 1 .. Len(resources)
  BY <1>1
<1>6. IsFiniteSet(1 .. Len(resources)) /\ Cardinality(1 .. Len(resources)) = Len(resources)
  <2>1. ASSUME NEW n \in Nat PROVE IsFiniteSet(1 .. n) /\ Cardinality(1 .. n) = n
    BY FS_Interval
  <2> QED BY <1>5, <2>1
<1>7. /\ resources \in [1 .. Len(resources) -> Elements(resources)]
      /\ \A r \in Elements(resources) : \E k \in 1 .. Len(resources) : resources[k] = r
  BY <1>1, <1>5 DEF Elements
<1>8. resources \in Surjection(1 .. Len(resources), Elements(resources))
  BY <1>7 DEF Surjection
<1>9. resources \in Injection(1 .. Len(resources), Elements(resources))
  <2>1. IsInjective(resources)
    BY <1>1 DEF IsInjective
  <2> QED BY <1>7, <2>1 DEF Injection
<1> QED BY <1>4, <1>6, <1>8, <1>9, FS_Surjection

\* Type correctness of the module: buffers, ages, the books and what the loop
\* holds stay in their types; no client's messages are counted twice between its
\* socket and the buffer of its resource.
THEOREM ResTypeCorrect == Spec => []ResTypeOK
<1>1. ManagerInv => ResTypeOK
  BY DEF ManagerInv, Typed
<1> QED BY <1>1, ManagerInvHolds, PTL

\* However connections are accepted, closed and expire around one another, those
\* that are left and those in use are NR_MAX_CONNECTIONS, each in use has a handle
\* of its own and one session, and nothing is reaped that the loop or the queue of
\* process_requests still points at.
THEOREM BooksAlwaysBalance == Spec => []BooksBalance
<1>1. ManagerInv => BooksBalance
  <2> SUFFICES ASSUME ManagerInv PROVE BooksBalance
    OBVIOUS
  <2>1. nr_connections + Cardinality(Live) = NR_MAX_CONNECTIONS /\ sessions = Live
    BY DEF ManagerInv, Counted
  <2>2. Len(resources) = Cardinality(Live) + 1
    BY ListLength
  <2>3. {h \in Handles : owner[h] # NoClient} = {res[c].hsock : c \in Live}
    <3>1. Live \subseteq Clients /\ NoClient \notin Clients
      BY LiveClients, ManagerAssumption DEF ManagerInv
    <3> QED BY <3>1 DEF ManagerInv, OwnHandle
  <2>4. \A c \in Live : owner[res[c].hsock] = c
    BY DEF ManagerInv, OwnHandle
  <2>5. Elements(res_queue) \cup ({cur} \ {End}) \subseteq Elements(resources)
    BY DEF ManagerInv, Held
  <2> QED BY <2>1, <2>2, <2>3, <2>4, <2>5 DEF BooksBalance, Live
<1> QED BY <1>1, ManagerInvHolds, PTL

\* A handle is closed and accepted again between select and the loop over its
\* results, and its bit is still set: what the loop visits and finds in the set is
\* still always the connection that select has seen.
THEOREM BitsStayFresh == Spec => []BitsAreFresh
<1>1. ManagerInv => BitsAreFresh
  BY DEF ManagerInv
<1> QED BY <1>1, ManagerInvHolds, PTL
=============================================================================
