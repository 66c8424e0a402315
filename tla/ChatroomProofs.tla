---------------------------- MODULE ChatroomProofs ----------------------------
(***************************************************************************)
(* Chatroom, for any finite set of clients and any size of the list.       *)
(***************************************************************************)
EXTENDS Chatroom, FiniteSetTheorems, SequenceTheorems, WellFoundedInduction, TLAPS

Serving == {c \in Clients : Served(c)}

\* A client has no thread before main has accepted it, and the one that main is
\* about to start a thread for has none.
OneThreadEach ==
    /\ pc \in [Clients -> {"none", "start", "read", "write", "close", "leave", "gone"}]
    /\ state \in [Clients -> {"away", "in", "left"}]
    /\ \A c \in Clients : state[c] = "away" => pc[c] = "none"
    /\ main \in {"check", "add"} =>
          guest \in Clients /\ pc[guest] = "none" /\ state[guest] # "away"

\* Nothing but main makes clientsConnected grow, so what it saw without the mutex
\* still holds when it has it.
RoomChecked == main = "add" => clientsConnected < MAX_CLIENTS

ListInv == ListInBounds /\ OneThreadEach /\ RoomChecked

LEMMA ServingIsFinite == IsFiniteSet(Serving) /\ Cardinality(Serving) \in Nat
  BY ClientsAssumption, FS_Subset, FS_CardinalityType DEF Serving

LEMMA InitListInv == Init => ListInv
  <1> SUFFICES ASSUME Init PROVE ListInv
    OBVIOUS
  <1> USE DEF Init
  <1>1. {c \in Clients : Served(c)} = {}
    BY DEF Served
  <1>2. ListInBounds
    <2>1. DOMAIN clients = 0 .. MAX_CLIENTS - 1
      OBVIOUS
    <2>2. clientsConnected = Cardinality({c \in Clients : Served(c)})
      BY <1>1, FS_EmptySet
    <2>3. clientsConnected <= MAX_CLIENTS
      BY MaxClientsAssumption
    <2> QED
      BY <2>1, <2>2, <2>3 DEF ListInBounds
  <1>3. OneThreadEach /\ RoomChecked
    BY DEF OneThreadEach, RoomChecked
  <1> QED
    BY <1>2, <1>3 DEF ListInv

(* A step that leaves the list alone and starts or ends no thread. *)
LEMMA ListUntouched ==
  ASSUME ListInv, UNCHANGED <<clients, clientsConnected>>,
         \A c \in Clients : Served(c)' = Served(c)
  PROVE  ListInBounds'
  <1>1. {c \in Clients : Served(c)}' = {c \in Clients : Served(c)}
    OBVIOUS
  <1> QED
    BY <1>1 DEF ListInv, ListInBounds

(* The steps of a thread between its first and its last. *)
LEMMA ServingKeepsListInv ==
  ASSUME ListInv, NEW t \in Clients, Served(t),
         NEW place \in {"start", "read", "write", "close", "leave"},
         pc' = [pc EXCEPT ![t] = place],
         UNCHANGED <<main, guest, clients, clientsConnected, state>>
  PROVE  ListInv'
  <1>1. /\ pc'[t] = place /\ \A c \in Clients \ {t} : pc'[c] = pc[c]
        /\ pc' \in [Clients -> {"none", "start", "read", "write", "close", "leave", "gone"}]
    BY DEF ListInv, OneThreadEach
  <1>2. \A c \in Clients : Served(c)' = Served(c)
    BY <1>1 DEF Served
  <1>3. ListInBounds'
    BY <1>2, ListUntouched
  <1>4. OneThreadEach'
    BY <1>1 DEF ListInv, OneThreadEach, Served
  <1>5. RoomChecked'
    BY DEF ListInv, RoomChecked
  <1> QED
    BY <1>3, <1>4, <1>5 DEF ListInv

(* A step that leaves main, the list and the threads where they are. *)
LEMMA TalkingKeepsListInv ==
  ASSUME ListInv, UNCHANGED <<main, guest, clients, clientsConnected, pc>>,
         state' \in [Clients -> {"away", "in", "left"}],
         \A c \in Clients : state'[c] = "away" <=> state[c] = "away"
  PROVE  ListInv'
  <1>1. \A c \in Clients : Served(c)' = Served(c)
    BY DEF Served
  <1>2. ListInBounds'
    BY <1>1, ListUntouched
  <1>3. OneThreadEach' /\ RoomChecked'
    BY DEF ListInv, OneThreadEach, RoomChecked
  <1> QED
    BY <1>2, <1>3 DEF ListInv

-----------------------------------------------------------------------------
LEMMA AddClientKeepsListInv ==
  ASSUME ListInv, AddClient
  PROVE  ListInv'
  <1> USE DEF AddClient
  <1>1. /\ guest \in Clients /\ pc[guest] = "none" /\ state[guest] # "away"
        /\ clientsConnected < MAX_CLIENTS /\ clientsConnected = Cardinality(Serving)
        /\ clientsConnected \in Nat /\ UNCHANGED state
    BY ServingIsFinite DEF ListInv, OneThreadEach, RoomChecked, ListInBounds, Serving, people
  <1>2. /\ pc' \in [Clients -> {"none", "start", "read", "write", "close", "leave", "gone"}]
        /\ pc'[guest] = "start" /\ \A c \in Clients \ {guest} : pc'[c] = pc[c]
    BY <1>1 DEF ListInv, OneThreadEach
  <1>3. DOMAIN clients' = 0 .. MAX_CLIENTS - 1
    <2>1. DOMAIN clients' = (0 .. MAX_CLIENTS - 1) \cup {clientsConnected}
      BY DEF ListInv, ListInBounds
    <2>2. clientsConnected \in 0 .. MAX_CLIENTS - 1
      BY <1>1, MaxClientsAssumption
    <2> QED
      BY <2>1, <2>2
  <1>4. clientsConnected' = Cardinality(Serving') /\ clientsConnected' <= MAX_CLIENTS
    <2>1. Serving' = Serving \cup {guest} /\ guest \notin Serving
      BY <1>1, <1>2 DEF Serving, Served
    <2>2. Cardinality(Serving') = clientsConnected + 1
      BY <2>1, <1>1, ServingIsFinite, FS_AddElement
    <2> QED
      BY <2>2, <1>1, MaxClientsAssumption
  <1>5. ListInBounds'
    BY <1>3, <1>4 DEF ListInBounds, Serving
  <1>6. OneThreadEach' /\ RoomChecked'
    BY <1>1, <1>2 DEF ListInv, OneThreadEach, RoomChecked
  <1> QED
    BY <1>5, <1>6 DEF ListInv

LEMMA LeaveKeepsListInv ==
  ASSUME ListInv, NEW t \in Clients, Leave(t)
  PROVE  ListInv'
  <1> USE DEF Leave
  <1>1. /\ pc[t] = "leave" /\ clientsConnected = Cardinality(Serving)
        /\ clientsConnected \in Nat /\ UNCHANGED <<main, guest, clients, state>>
    BY ServingIsFinite DEF ListInv, ListInBounds, Serving, people
  <1>2. /\ pc' \in [Clients -> {"none", "start", "read", "write", "close", "leave", "gone"}]
        /\ pc'[t] = "gone" /\ \A c \in Clients \ {t} : pc'[c] = pc[c]
    BY DEF ListInv, OneThreadEach
  <1>3. clientsConnected' = Cardinality(Serving')
    <2>1. Serving' = Serving \ {t} /\ t \in Serving
      BY <1>1, <1>2 DEF Serving, Served
    <2> QED
      BY <2>1, <1>1, ServingIsFinite, FS_RemoveElement
  <1>4. clientsConnected' <= MAX_CLIENTS
    BY <1>1, MaxClientsAssumption DEF ListInv, ListInBounds
  <1>5. ListInBounds'
    BY <1>1, <1>3, <1>4 DEF ListInv, ListInBounds, Serving
  <1>6. OneThreadEach'
    BY <1>1, <1>2 DEF ListInv, OneThreadEach
  <1>7. RoomChecked'
    BY <1>1, MaxClientsAssumption DEF ListInv, RoomChecked
  <1> QED
    BY <1>5, <1>6, <1>7 DEF ListInv

LEMMA acceptKeepsListInv ==
  ASSUME ListInv, NEW c \in Clients, accept(c)
  PROVE  ListInv'
  <1> USE DEF accept
  <1>1. /\ state[c] = "away" /\ main' = "check" /\ guest' = c
        /\ state' = [state EXCEPT ![c] = "in"]
        /\ UNCHANGED <<clients, clientsConnected, pc>>
    BY DEF thread
  <1>2. \A d \in Clients : Served(d)' = Served(d)
    BY <1>1 DEF Served
  <1>3. ListInBounds'
    BY <1>1, <1>2, ListUntouched
  <1>4. OneThreadEach' /\ RoomChecked'
    BY <1>1 DEF ListInv, OneThreadEach, RoomChecked
  <1> QED
    BY <1>3, <1>4 DEF ListInv

LEMMA CheckKeepsListInv ==
  ASSUME ListInv, Reject \/ Accepted
  PROVE  ListInv'
  <1>1. UNCHANGED <<guest, clients, clientsConnected, pc, state>> /\ main = "check"
    BY DEF Reject, Accepted, thread, people
  <1>2. main' = "accept" \/ (main' = "add" /\ ~ (clientsConnected >= MAX_CLIENTS))
    BY DEF Reject, Accepted, IsFull
  <1>3. \A d \in Clients : Served(d)' = Served(d)
    BY <1>1 DEF Served
  <1>4. ListInBounds'
    BY <1>1, <1>3, ListUntouched
  <1>5. OneThreadEach'
    BY <1>1, <1>2 DEF ListInv, OneThreadEach
  <1>6. clientsConnected \in Nat
    BY ServingIsFinite DEF ListInv, ListInBounds, Serving
  <1>7. RoomChecked'
    BY <1>1, <1>2, <1>6, MaxClientsAssumption DEF RoomChecked
  <1> QED
    BY <1>4, <1>5, <1>7 DEF ListInv

LEMMA processClientKeepsListInv ==
  ASSUME ListInv, NEW t \in Clients, processClient(t)
  PROVE  ListInv'
  <1> USE DEF server, thread, people
  <1>1. CASE TakeArgument(t)
    <2>1. Served(t)
      BY <1>1 DEF TakeArgument, Served
    <2> QED
      BY <1>1, <2>1, ServingKeepsListInv DEF TakeArgument
  <1>2. CASE Read(t)
    <2>1. Served(t)
      BY <1>2 DEF Read, Served
    <2>2. pc' = [pc EXCEPT ![t] = "write"] \/ pc' = pc
      BY <1>2 DEF Read, Collect
    <2>3. pc' = [pc EXCEPT ![t] = "write"] \/ pc' = [pc EXCEPT ![t] = "read"]
      BY <1>2, <2>2 DEF Read, ListInv, OneThreadEach
    <2>4. UNCHANGED <<main, guest, clients, clientsConnected, state>>
      BY <1>2 DEF Read
    <2> QED
      BY <2>1, <2>3, <2>4, ServingKeepsListInv
  <1>3. CASE ReadEnd(t)
    <2>1. Served(t)
      BY <1>3 DEF ReadEnd, Served
    <2> QED
      BY <1>3, <2>1, ServingKeepsListInv DEF ReadEnd
  <1>4. CASE ReadFails(t) \/ WriteToOne(t)
    <2>1. UNCHANGED <<main, guest, clients, clientsConnected, pc, state>>
      BY <1>4 DEF ReadFails, WriteToOne
    <2> QED
      BY <2>1, TalkingKeepsListInv DEF ListInv, OneThreadEach
  <1>5. CASE WroteToAll(t)
    <2>1. Served(t)
      BY <1>5 DEF WroteToAll, Served
    <2> QED
      BY <1>5, <2>1, ServingKeepsListInv DEF WroteToAll
  <1>6. CASE CloseSocket(t)
    <2>1. Served(t)
      BY <1>6 DEF CloseSocket, Served
    <2> QED
      BY <1>6, <2>1, ServingKeepsListInv DEF CloseSocket
  <1> QED
    BY <1>1, <1>2, <1>3, <1>4, <1>5, <1>6, LeaveKeepsListInv DEF processClient

LEMMA ClientKeepsListInv ==
  ASSUME ListInv, NEW c \in Clients, write_to_server(c) \/ close_client(c)
  PROVE  ListInv'
  <1> USE DEF server, thread
  <1>1. UNCHANGED <<main, guest, clients, clientsConnected, pc>>
    BY DEF write_to_server, close_client
  <1>2. state' = state \/ (state[c] = "in" /\ state' = [state EXCEPT ![c] = "left"])
    BY DEF write_to_server, close_client
  <1>3. /\ state' \in [Clients -> {"away", "in", "left"}]
        /\ \A d \in Clients : state'[d] = "away" <=> state[d] = "away"
    BY <1>2 DEF ListInv, OneThreadEach
  <1> QED
    BY <1>1, <1>3, TalkingKeepsListInv

LEMMA StepKeepsListInv == ListInv /\ [Next]_vars => ListInv'
  <1> SUFFICES ASSUME ListInv, [Next]_vars PROVE ListInv'
    OBVIOUS
  <1>1. CASE UNCHANGED vars
    <2>1. UNCHANGED <<main, guest, clients, clientsConnected, pc, state>>
      BY <1>1 DEF vars, server, thread, people
    <2> QED
      BY <2>1, TalkingKeepsListInv DEF ListInv, OneThreadEach
  <1>2. CASE Admit
    BY <1>2, CheckKeepsListInv, AddClientKeepsListInv DEF Admit
  <1>3. ASSUME NEW c \in Clients,
               accept(c) \/ processClient(c) \/ write_to_server(c) \/ close_client(c)
        PROVE  ListInv'
    BY <1>3, acceptKeepsListInv, processClientKeepsListInv, ClientKeepsListInv
  <1> QED
    BY <1>1, <1>2, <1>3 DEF Next

(* However clients come and go, main never writes past the end of clients, and *)
(* clientsConnected is the number of threads (server.c:119 and :132).          *)
THEOREM ListStaysInBounds == Spec => []ListInBounds
  <1>1. ListInv => ListInBounds
    BY DEF ListInv
  <1> QED
    BY <1>1, InitListInv, StepKeepsListInv, PTL DEF Spec

-----------------------------------------------------------------------------
(* What everybody receives.                                                *)

\* An open descriptor is of one client, which main has accepted.
OpenEnds ==
    /\ main \in {"accept", "check", "add"} /\ guest \in Clients \cup {NULL}
    /\ client_fd \in Descriptors \cup {NULL} /\ Range(clients) \subseteq Descriptors \cup {NULL}
    /\ fd \in [Clients -> Descriptors \cup {NULL}]
    /\ DOMAIN peer \subseteq Descriptors /\ peer \in [DOMAIN peer -> Clients]
    /\ \A f \in DOMAIN peer : state[peer[f]] # "away"
    /\ \A f, g \in DOMAIN peer : peer[f] = peer[g] => f = g

Spoken ==
    /\ sent \in [Clients -> 0 .. MaxLines] /\ owed \subseteq Clients \X Lines
    /\ buffer \in [Clients -> Seq(Lines \X {1, 2})]
    /\ stream \in [Clients -> Seq(Lines \X {1, 2})]
    /\ heard \in [Clients -> Seq(Lines \X {1, 2})]
    /\ i \in [Clients -> 0 .. MAX_CLIENTS]
    /\ fate \in {NULL, "undefined", "SIGPIPE"} /\ raced \in BOOLEAN

Calm == NobodyLeft /\ ~raced

\* Each thread reads from its own client, and the list is of the clients that
\* have a thread, each once.
ThreadsInPlace ==
    /\ \A t \in Clients :
          /\ pc[t] \notin {"close", "leave", "gone"}
          /\ pc[t] \in {"read", "write"} => fd[t] \in DOMAIN peer /\ peer[fd[t]] = t
    /\ guest \in Clients /\ (pc[guest] = "start" \/ main \in {"check", "add"}) =>
          client_fd \in DOMAIN peer /\ peer[client_fd] = guest
    /\ \A k \in 0 .. clientsConnected - 1 : clients[k] \in DOMAIN peer /\ Served(peer[clients[k]])
    /\ \A j, k \in 0 .. clientsConnected - 1 : clients[j] = clients[k] => j = k

\* Part k of all that c says, and how many of them its thread is done with.
Part(c, k) == <<<<c, (k + 1) \div 2>>, 2 - (k % 2)>>
Done(c) == 2 * sent[c] - Len(buffer[c]) - Len(stream[c])

\* The parts follow each other through the stream and the buffer, and what goes
\* to everybody is whole lines.
PartsFollow ==
    \A c \in Clients :
        /\ Done(c) >= 0 /\ Done(c) % 2 = 0
        /\ \A k \in 1 .. Len(buffer[c]) : buffer[c][k] = Part(c, Done(c) + k)
        /\ \A k \in 1 .. Len(stream[c]) : stream[c][k] = Part(c, Done(c) + Len(buffer[c]) + k)
        /\ pc[c] = "write" => Len(buffer[c]) % 2 = 0
        /\ pc[c] # "write" => i[c] = 0
        /\ pc[c] = "none" => heard[c] = << >>

\* No line of c up to part k is beyond what q has.
UpTo(q, c, k) == \A j \in 1 .. Len(q) : q[j][1][1] = c => 2 * q[j][1][2] <= k

\* Those that a thread has yet to write its buffer to have nothing of it.
BufferIsNew ==
    \A c, h \in Clients :
        /\ UpTo(heard[h], c, Done(c) + Len(buffer[c]))
        /\ \A k \in i[c] .. clientsConnected - 1 :
              peer[clients[k]] = h => UpTo(heard[h], c, Done(c))

Told == \A h \in Clients : WholeInOrder(heard[h])

TypedInv == ListInv /\ OpenEnds /\ Spoken
CalmInv == Calm => ThreadsInPlace /\ PartsFollow /\ BufferIsNew /\ Told

LEMMA LeastOf ==
  ASSUME NEW S, S # {}, S \subseteq Nat
  PROVE  Min(S) \in S /\ \A y \in S : Min(S) <= y
  <1>1. PICK x \in S : \A y \in S : <<y, x>> \notin OpToRel(<, Nat)
    BY NatLessThanWellFounded, WFMin
  <1>2. ASSUME NEW y \in S PROVE x <= y
    <2>1. x \in Nat /\ y \in Nat
      OBVIOUS
    <2>2. ~ y < x
      BY <1>1, <2>1 DEF OpToRel
    <2> QED
      BY <2>1, <2>2
  <1> QED
    BY <1>2 DEF Min

LEMMA CountIsNat == ListInBounds => clientsConnected \in 0 .. MAX_CLIENTS
  <1>1. ListInBounds => clientsConnected = Cardinality(Serving) /\ clientsConnected <= MAX_CLIENTS
    BY DEF ListInBounds, Serving
  <1> QED
    BY <1>1, ServingIsFinite, MaxClientsAssumption

\* A client that is away has no descriptor, so one is left for it.
LEMMA DescriptorIsLeft ==
  ASSUME OpenEnds, NEW c \in Clients, state[c] = "away"
  PROVE  LowestFree \in Descriptors \ DOMAIN peer
  <1> DEFINE n == Cardinality(Clients)
             free == (1 .. n) \ DOMAIN peer
             others == Clients \ {c}
  <1>1. n \in Nat /\ IsFiniteSet(others) /\ Cardinality(others) = n - 1
    BY ClientsAssumption, FS_CardinalityType, FS_RemoveElement
  <1> HIDE DEF n
  <1>2. free # {}
    <2> SUFFICES ASSUME free = {} PROVE FALSE
      OBVIOUS
    <2>1. DOMAIN peer = 1 .. n
      BY DEF OpenEnds, Descriptors, n
    <2>2. peer \in [1 .. n -> others]
      BY <2>1 DEF OpenEnds
    <2>3. IsFiniteSet(1 .. n) /\ Cardinality(1 .. n) = n
      <3>1. 1 \in Int /\ n \in Int
        BY <1>1
      <3>2. IsFiniteSet(1 .. n) /\ Cardinality(1 .. n) = IF 1 > n THEN 0 ELSE n - 1 + 1
        BY <3>1, FS_Interval
      <3> QED
        BY <1>1, <3>2
    <2>4. Cardinality(others) < Cardinality(1 .. n)
      BY <1>1, <2>3
    <2>5. PICK x, y \in 1 .. n : x # y /\ peer[x] = peer[y]
      BY <1>1, <2>2, <2>3, <2>4, FS_PigeonHole
    <2> QED
      BY <2>1, <2>5 DEF OpenEnds
  <1>3. free \subseteq Nat
    BY <1>1
  <1>4. Min(free) \in free
    BY <1>2, <1>3, LeastOf
  <1> QED
    BY <1>4 DEF LowestFree, Descriptors, n, free

\* As long as lines may be said, none has said them all.
LEMMA LineIsLeft ==
  ASSUME Spoken, NEW c \in Clients, Cardinality(Said) < MaxLines
  PROVE  sent[c] + 1 \in 1 .. MaxLines
  <1>1. sent[c] \in 0 .. MaxLines /\ MaxLines \in Nat
    BY MaxLinesAssumption DEF Spoken
  <1>2. SUFFICES ASSUME sent[c] = MaxLines PROVE FALSE
    BY <1>1
  <1> DEFINE mine == {c} \X (1 .. MaxLines)
  <1>3. IsFiniteSet(1 .. MaxLines) /\ Cardinality(1 .. MaxLines) = MaxLines
    <2>1. 1 \in Int /\ MaxLines \in Int
      BY <1>1
    <2>2. IsFiniteSet(1 .. MaxLines) /\ Cardinality(1 .. MaxLines) = IF 1 > MaxLines THEN 0 ELSE MaxLines - 1 + 1
      BY <2>1, FS_Interval
    <2> QED
      BY <1>1, <2>2
  <1>4. IsFiniteSet(mine) /\ Cardinality(mine) = 1 * MaxLines
    <2>1. IsFiniteSet({c}) /\ Cardinality({c}) = 1
      BY FS_Singleton
    <2>2. Cardinality(mine) = Cardinality({c}) * Cardinality(1 .. MaxLines) /\ IsFiniteSet(mine)
      BY <1>3, <2>1, FS_Product
    <2> QED
      BY <1>3, <2>1, <2>2
  <1>5. mine \subseteq Said
    BY <1>2 DEF Said, Lines
  <1>6. IsFiniteSet(Lines)
    BY <1>3, ClientsAssumption, FS_Product DEF Lines
  <1>7. IsFiniteSet(Said)
    BY <1>6, FS_Subset DEF Said
  <1>8. Cardinality(mine) <= Cardinality(Said) /\ Cardinality(Said) \in Nat
    BY <1>5, <1>7, FS_Subset, FS_CardinalityType
  <1> QED
    BY <1>1, <1>4, <1>8

(* The descriptors, the list and the places of main and of the threads.     *)
LEMMA MainKeepsEnds ==
  ASSUME TypedInv, Admit
  PROVE  OpenEnds'
  <1> USE DEF TypedInv, OpenEnds, thread, people, Descriptors
  <1>1. CASE Reject
    <2>1. /\ DOMAIN peer' \subseteq DOMAIN peer /\ peer' \in [DOMAIN peer' -> Clients]
          /\ \A f \in DOMAIN peer' : peer'[f] = peer[f]
      BY <1>1 DEF Reject, Close
    <2>2. UNCHANGED <<guest, client_fd, clients, fd, state>> /\ main' = "accept"
      BY <1>1 DEF Reject
    <2> QED
      BY <2>1, <2>2
  <1>2. CASE Accepted
    BY <1>2 DEF Accepted
  <1>3. CASE AddClient
    <2>1. UNCHANGED <<guest, client_fd, peer, fd, state>> /\ main' = "accept"
      BY <1>3 DEF AddClient
    <2>2. Range(clients') \subseteq Range(clients) \cup {client_fd}
      BY <1>3 DEF AddClient, Range
    <2> QED
      BY <2>1, <2>2
  <1> QED
    BY <1>1, <1>2, <1>3 DEF Admit

LEMMA acceptKeepsEnds ==
  ASSUME TypedInv, NEW c \in Clients, accept(c)
  PROVE  OpenEnds'
  <1> USE DEF TypedInv, OpenEnds
  <1> DEFINE d == LowestFree
  <1>1. d \in Descriptors \ DOMAIN peer
    BY DescriptorIsLeft DEF accept
  <1>2. /\ DOMAIN peer' = DOMAIN peer \cup {d} /\ peer' \in [DOMAIN peer' -> Clients]
        /\ peer'[d] = c /\ \A f \in DOMAIN peer : peer'[f] = peer[f]
    BY <1>1 DEF accept
  <1>3. /\ client_fd' = d /\ guest' = c /\ main' = "check"
        /\ UNCHANGED <<clients, fd>> /\ state' = [state EXCEPT ![c] = "in"] /\ state[c] = "away"
    BY DEF accept, thread
  <1> HIDE DEF d
  <1>4. state'[c] # "away" /\ \A e \in Clients \ {c} : state'[e] = state[e]
    BY <1>3 DEF ListInv, OneThreadEach
  <1>5. \A f \in DOMAIN peer' : state'[peer'[f]] # "away"
    BY <1>2, <1>3, <1>4
  <1>6. \A f, g \in DOMAIN peer' : peer'[f] = peer'[g] => f = g
    BY <1>1, <1>2, <1>3
  <1> QED
    BY <1>1, <1>2, <1>3, <1>5, <1>6 DEF Descriptors

LEMMA ClientKeepsEnds ==
  ASSUME TypedInv, NEW c \in Clients, processClient(c) \/ write_to_server(c) \/ close_client(c)
  PROVE  OpenEnds'
  <1> USE DEF TypedInv, OpenEnds, server, thread, people, Descriptors
  <1>1. CASE write_to_server(c)
    BY <1>1 DEF write_to_server
  <1>2. CASE close_client(c)
    <2>1. UNCHANGED <<main, guest, client_fd, clients, fd, peer>> /\ state' = [state EXCEPT ![c] = "left"]
      BY <1>2 DEF close_client
    <2>2. \A f \in DOMAIN peer' : state'[peer'[f]] # "away"
      BY <2>1 DEF ListInv, OneThreadEach
    <2> QED
      BY <2>1, <2>2
  <1>3. CASE TakeArgument(c)
    BY <1>3 DEF TakeArgument
  <1>4. CASE Read(c) \/ ReadEnd(c) \/ ReadFails(c)
    <2>1. UNCHANGED <<main, guest, client_fd, clients, fd, peer, state>>
      BY <1>4 DEF Read, ReadEnd, ReadFails
    <2> QED
      BY <2>1
  <1>5. CASE WriteToOne(c) \/ WroteToAll(c)
    <2>1. UNCHANGED <<main, guest, client_fd, clients, fd, peer, state>>
      BY <1>5 DEF WriteToOne, WroteToAll
    <2> QED
      BY <2>1
  <1>6. CASE CloseSocket(c)
    <2>1. /\ DOMAIN peer' \subseteq DOMAIN peer /\ peer' \in [DOMAIN peer' -> Clients]
          /\ \A f \in DOMAIN peer' : peer'[f] = peer[f]
      BY <1>6 DEF CloseSocket, Close
    <2>2. UNCHANGED <<main, guest, client_fd, clients, fd, state>>
      BY <1>6 DEF CloseSocket
    <2> QED
      BY <2>1, <2>2
  <1>7. CASE Leave(c)
    BY <1>7 DEF Leave
  <1> QED
    BY <1>1, <1>2, <1>3, <1>4, <1>5, <1>6, <1>7 DEF processClient

(* What is said, and the threads' counts.                                   *)
LEMMA SayingKeepsSpoken ==
  ASSUME TypedInv, NEW c \in Clients, write_to_server(c)
  PROVE  Spoken'
  <1> USE DEF Spoken
  <1> DEFINE n == sent[c] + 1
             line == <<c, n>>
             S == Lines \X {1, 2}
  <1>1. n \in 1 .. MaxLines /\ MaxLines \in Nat /\ line \in Lines
    BY LineIsLeft, MaxLinesAssumption DEF TypedInv, write_to_server, Lines
  <1>2. Parts(line) \in Seq(S)
    BY <1>1 DEF Parts
  <1>3. stream[c] \o Parts(line) \in Seq(S)
    BY <1>2, ConcatProperties DEF TypedInv
  <1>4. /\ sent' = [sent EXCEPT ![c] = @ + 1] /\ UNCHANGED <<buffer, heard, i, fate, raced>>
        /\ stream' = [stream EXCEPT ![c] = @ \o Parts(line)]
    BY DEF write_to_server, thread
  <1>5. sent' \in [Clients -> 0 .. MaxLines]
    BY <1>1, <1>4 DEF TypedInv
  <1>6. stream' \in [Clients -> Seq(S)]
    BY <1>3, <1>4 DEF TypedInv
  <1>7. owed' \subseteq Clients \X Lines
    BY <1>1 DEF write_to_server, TypedInv
  <1> QED
    BY <1>4, <1>5, <1>6, <1>7 DEF TypedInv

LEMMA ReadKeepsSpoken ==
  ASSUME TypedInv, NEW t \in Clients, Read(t)
  PROVE  Spoken'
  <1> USE DEF Spoken
  <1> DEFINE c == peer[fd[t]]
             S == Lines \X {1, 2}
  <1>1. c \in Clients /\ stream[c] \in Seq(S) /\ buffer[t] \in Seq(S)
    BY DEF Read, TypedInv, OpenEnds
  <1>2. PICK n \in 1 .. Len(stream[c]) :
            /\ Collect(t, SubSeq(stream[c], 1, n))
            /\ stream' = [stream EXCEPT ![c] = SubSeq(@, n + 1, Len(@))]
    BY DEF Read
  <1> HIDE DEF c, S
  <1>3. SubSeq(stream[c], 1, n) \in Seq(S) /\ SubSeq(stream[c], n + 1, Len(stream[c])) \in Seq(S)
    BY <1>1
  <1>4. buffer[t] \o SubSeq(stream[c], 1, n) \in Seq(S)
    BY <1>1, <1>3, ConcatProperties
  <1>5. buffer' \in [Clients -> Seq(S)]
    BY <1>2, <1>4 DEF Collect, TypedInv, S
  <1>6. stream' \in [Clients -> Seq(S)]
    BY <1>1, <1>2, <1>3 DEF TypedInv, S
  <1>7. UNCHANGED <<sent, heard, owed, i, fate, raced>>
    BY DEF Read
  <1> QED
    BY <1>5, <1>6, <1>7 DEF TypedInv, S

LEMMA WritingKeepsSpoken ==
  ASSUME TypedInv, NEW t \in Clients, WriteToOne(t)
  PROVE  Spoken'
  <1> USE DEF Spoken
  <1> DEFINE f == clients[i[t]]
             h == peer[f]
             S == Lines \X {1, 2}
  <1>1. UNCHANGED <<sent, buffer, stream, raced>>
    BY DEF WriteToOne
  <1>2. i' \in [Clients -> 0 .. MAX_CLIENTS]
    <2>1. i[t] \in 0 .. MAX_CLIENTS /\ i[t] < clientsConnected /\ clientsConnected \in 0 .. MAX_CLIENTS
      BY CountIsNat DEF WriteToOne, TypedInv, ListInv
    <2>2. i[t] + 1 \in 0 .. MAX_CLIENTS
      BY <2>1, MaxClientsAssumption
    <2> QED
      BY <2>2 DEF WriteToOne, TypedInv
  <1>3. \/ UNCHANGED <<heard, owed>> /\ fate' \in {fate, NULL, "SIGPIPE"}
        \/ f \in DOMAIN peer /\ Heard(h, buffer[t]) /\ UNCHANGED fate
    BY DEF WriteToOne
  <1> HIDE DEF f, S
  <1>4. CASE UNCHANGED <<heard, owed>> /\ fate' \in {fate, NULL, "SIGPIPE"}
    BY <1>1, <1>2, <1>4 DEF TypedInv
  <1>5. CASE f \in DOMAIN peer /\ Heard(h, buffer[t]) /\ UNCHANGED fate
    <2>1. h \in Clients /\ heard[h] \in Seq(S) /\ buffer[t] \in Seq(S)
      BY <1>5 DEF TypedInv, OpenEnds, S
    <2>2. heard[h] \o buffer[t] \in Seq(S)
      BY <2>1, ConcatProperties
    <2>3. heard' \in [Clients -> Seq(S)]
      BY <1>5, <2>1, <2>2 DEF Heard, TypedInv, S
    <2>4. owed' \subseteq Clients \X Lines
      BY <1>5 DEF Heard, TypedInv
    <2> QED
      BY <1>1, <1>2, <1>5, <2>3, <2>4 DEF TypedInv, S
  <1> QED
    BY <1>3, <1>4, <1>5

LEMMA StepKeepsSpoken ==
  ASSUME TypedInv, [Next]_vars
  PROVE  Spoken'
  <1> USE DEF server, thread, people, Spoken, TypedInv
  <1>1. CASE UNCHANGED vars
    BY <1>1 DEF vars
  <1>2. CASE Admit
    <2>1. UNCHANGED <<sent, owed, buffer, stream, heard, i, fate, raced>>
      BY <1>2 DEF Admit, Reject, Accepted, AddClient
    <2> QED
      BY <2>1
  <1>3. ASSUME NEW c \in Clients, accept(c) \/ close_client(c) PROVE Spoken'
    <2>1. UNCHANGED <<sent, owed, buffer, stream, heard, i, fate, raced>>
      BY <1>3 DEF accept, close_client
    <2> QED
      BY <2>1
  <1>4. ASSUME NEW t \in Clients, processClient(t) PROVE Spoken'
    <2>1. CASE TakeArgument(t)
      BY <2>1 DEF TakeArgument
    <2>2. CASE ReadFails(t)
      BY <2>2 DEF ReadFails
    <2>3. CASE ReadEnd(t) \/ CloseSocket(t) \/ Leave(t)
      <3>1. UNCHANGED <<sent, owed, buffer, stream, heard, i, fate, raced>>
        BY <2>3 DEF ReadEnd, CloseSocket, Leave
      <3> QED
        BY <3>1
    <2>4. CASE WroteToAll(t)
      <3>1. /\ UNCHANGED <<sent, owed, stream, heard, fate, raced>>
            /\ i' = [i EXCEPT ![t] = 0] /\ buffer' = [buffer EXCEPT ![t] = << >>]
        BY <2>4 DEF WroteToAll
      <3>2. i' \in [Clients -> 0 .. MAX_CLIENTS]
        BY <3>1, MaxClientsAssumption
      <3>3. buffer' \in [Clients -> Seq(Lines \X {1, 2})]
        BY <3>1
      <3> QED
        BY <3>1, <3>2, <3>3
    <2> QED
      BY <1>4, <2>1, <2>2, <2>3, <2>4, ReadKeepsSpoken, WritingKeepsSpoken DEF processClient
  <1> QED
    BY <1>1, <1>2, <1>3, <1>4, SayingKeepsSpoken DEF Next

LEMMA StepKeepsTyped == TypedInv /\ [Next]_vars => TypedInv'
  <1> SUFFICES ASSUME TypedInv, [Next]_vars PROVE TypedInv'
    OBVIOUS
  <1>1. ListInv'
    BY StepKeepsListInv DEF TypedInv
  <1>2. OpenEnds'
    <2>1. CASE UNCHANGED vars
      BY <2>1 DEF vars, server, thread, people, OpenEnds, TypedInv, Descriptors
    <2> QED
      BY <2>1, MainKeepsEnds, acceptKeepsEnds, ClientKeepsEnds DEF Next
  <1> QED
    BY <1>1, <1>2, StepKeepsSpoken DEF TypedInv

LEMMA InitTyped == Init => TypedInv
  <1> SUFFICES ASSUME Init PROVE TypedInv
    OBVIOUS
  <1>1. OpenEnds
    <2>1. peer = << >> /\ DOMAIN peer = {} /\ peer \in [DOMAIN peer -> Clients]
      BY DEF Init
    <2>2. Range(clients) \subseteq {NULL}
      BY DEF Init, Range
    <2> QED
      BY <2>1, <2>2 DEF OpenEnds, Init
  <1>2. Spoken
    <2>1. 0 \in 0 .. MaxLines /\ 0 \in 0 .. MAX_CLIENTS /\ << >> \in Seq(Lines \X {1, 2})
      BY MaxLinesAssumption, MaxClientsAssumption
    <2> QED
      BY <2>1 DEF Init, Spoken
  <1> QED
    BY <1>1, <1>2, InitListInv DEF TypedInv

LEMMA TypedIsTypeOK == TypedInv => TypeOK
  <1> SUFFICES ASSUME TypedInv PROVE TypeOK
    OBVIOUS
  <1>1. clientsConnected \in Nat
    BY CountIsNat DEF TypedInv, ListInv
  <1>2. Range(peer) \subseteq Clients
    BY DEF Range, TypedInv, OpenEnds
  <1>3. ASSUME NEW c \in Clients
        PROVE  Range(buffer[c]) \cup Range(stream[c]) \cup Range(heard[c]) \subseteq Lines \X {1, 2}
    <2> DEFINE S == Lines \X {1, 2}
    <2>1. buffer[c] \in Seq(S) /\ stream[c] \in Seq(S) /\ heard[c] \in Seq(S)
      BY DEF TypedInv, Spoken
    <2> HIDE DEF S
    <2>2. \A q \in Seq(S) : Range(q) \subseteq S
      BY DEF Range
    <2> QED
      BY <2>1, <2>2 DEF S
  <1> QED
    BY <1>1, <1>2, <1>3 DEF TypeOK, TypedInv, OpenEnds, Spoken, ListInv, OneThreadEach

-----------------------------------------------------------------------------
(* Lines and their parts                                                   *)

LEMMA Parity ==
  /\ \A k \in Nat : k % 2 \in {0, 1} /\ (k % 2 = 1 => k >= 1)
  /\ \A k \in Nat : 2 * ((k + 1) \div 2) <= k + (k % 2) /\ (k + 1) \div 2 \in Nat
  /\ \A j, k \in Nat : j % 2 = 0 /\ k <= j => k + (k % 2) <= j
  /\ \A j, k \in Nat : j < k /\ j % 2 = k % 2 => j + 2 <= k
  /\ \A j, k, n \in Nat : k = n + j /\ n % 2 = 0 => (k % 2 = 1 <=> j % 2 = 1)
  OBVIOUS

LEMMA PartIs ==
  ASSUME NEW c, NEW k \in Nat
  PROVE  /\ Part(c, k)[1][1] = c /\ 2 * Part(c, k)[1][2] <= k + (k % 2) /\ 2 * Part(c, k)[1][2] >= k
         /\ Part(c, k)[2] = 1 <=> k % 2 = 1
         /\ Part(c, k)[2] = 2 <=> k % 2 = 0
         /\ k % 2 = 0 /\ k # 0 => Part(c, k) = <<Part(c, k - 1)[1], 2>>
  <1>1. Part(c, k)[1][1] = c /\ Part(c, k)[1][2] = (k + 1) \div 2 /\ Part(c, k)[2] = 2 - (k % 2)
    BY DEF Part
  <1>2. k % 2 = 0 /\ k # 0 => Part(c, k - 1)[1] = <<c, k \div 2>> /\ (k + 1) \div 2 = k \div 2
    BY DEF Part
  <1>3. k % 2 \in {0, 1} /\ 2 * ((k + 1) \div 2) <= k + (k % 2) /\ 2 * ((k + 1) \div 2) >= k
    OBVIOUS
  <1>4. k % 2 = 0 /\ k # 0 => Part(c, k) = <<Part(c, k - 1)[1], 2>>
    BY <1>2 DEF Part
  <1> QED
    BY <1>1, <1>3, <1>4

\* The next lines of c, behind the earlier ones.
LEMMA LinesFollow ==
  ASSUME NEW c \in Clients, NEW d \in Nat, d % 2 = 0,
         NEW q \in Seq(Lines \X {1, 2}), NEW b \in Seq(Lines \X {1, 2}),
         WholeInOrder(q), UpTo(q, c, d),
         Len(b) % 2 = 0, \A k \in 1 .. Len(b) : b[k] = Part(c, d + k)
  PROVE  WholeInOrder(q \o b)
  <1> DEFINE S == Lines \X {1, 2}
             r == q \o b
  <1>8. PICK m \in Nat : m = Len(q)
    BY LenProperties
  <1>9. PICK n \in Nat : n = Len(b)
    BY LenProperties
  <1>1. m \in Nat /\ n \in Nat /\ d \in Nat
    OBVIOUS
  <1>0. n % 2 = 0 /\ d % 2 = 0
    BY <1>9
  <1>2. /\ r \in Seq(S) /\ Len(r) = m + n /\ \A k \in 1 .. m : r[k] = q[k]
        /\ \A k \in 1 .. n : r[m + k] = Part(c, d + k)
    <2> HIDE DEF S
    <2>1. q \in Seq(S) /\ b \in Seq(S)
      BY DEF S
    <2>2. r \in Seq(S) /\ Len(r) = m + n /\ \A k \in 1 .. m + n : r[k] = IF k <= m THEN q[k] ELSE b[k - m]
      BY <1>8, <1>9, <2>1, ConcatProperties
    <2> QED
      BY <1>1, <1>9, <2>2
  <1>3. \A k \in 1 .. m : q[k] \in S
    BY <1>8
  <1> HIDE DEF r
  <1>4. m % 2 = 0
    <2> SUFFICES ASSUME m % 2 = 1 PROVE FALSE
      BY <1>1
    <2>1. m % 2 = 1
      OBVIOUS
    <2>2. m >= 1
      BY <2>1, Parity
    <2> QED
      BY <1>1, <1>8, <2>1, <2>2 DEF WholeInOrder
  <1>5. ASSUME NEW k \in 1 .. m + n
        PROVE  IF k % 2 = 1 THEN r[k][2] = 1 /\ k < m + n ELSE r[k] = <<r[k - 1][1], 2>>
    <2>1. CASE k <= m
      <3>1. k \in 1 .. m /\ r[k] = q[k]
        BY <1>1, <1>2, <2>1
      <3>2. IF k % 2 = 1 THEN q[k][2] = 1 /\ k < m ELSE q[k] = <<q[k - 1][1], 2>>
        BY <1>8, <3>1 DEF WholeInOrder
      <3>3. k % 2 # 1 => k - 1 \in 1 .. m
        BY ONLY <1>1, <3>1
      <3> QED
        BY <1>1, <1>2, <3>1, <3>2, <3>3
    <2>2. CASE k > m
      <3>6. PICK j \in 1 .. n : k = m + j
        BY <1>1, <2>2
      <3>7. PICK e \in Nat : e = d + j
        BY <1>1
      <3>1. j \in 1 .. n /\ k = m + j /\ e \in Nat /\ e # 0 /\ e = d + j
        BY <1>1, <3>6, <3>7
      <3>2. r[k] = Part(c, e)
        BY <1>2, <3>1
      <3>3. (k % 2 = 1 <=> e % 2 = 1) /\ (k % 2 = 1 <=> j % 2 = 1) /\ (e % 2 = 1 \/ e % 2 = 0)
        <4>1. j \in Nat /\ k \in Nat
          OBVIOUS
        <4>2. k % 2 = 1 <=> j % 2 = 1
          BY <1>4, <3>6, <4>1, Parity
        <4>3. e % 2 = 1 <=> j % 2 = 1
          BY <1>0, <3>7, <4>1, Parity
        <4>4. e % 2 = 1 \/ e % 2 = 0
          BY Parity
        <4> QED
          BY <4>2, <4>3, <4>4
      <3>4. CASE k % 2 = 1
        <4>1. j # n
          BY <1>0, <3>3, <3>4
        <4>2. Part(c, e)[2] = 1
          BY <3>1, <3>3, <3>4, PartIs
        <4>3. k < m + n
          BY ONLY <1>1, <3>1, <4>1
        <4> QED
          BY ONLY <3>2, <3>4, <4>2, <4>3
      <3>5. CASE k % 2 # 1
        <4>0. j # 1
          BY <3>3, <3>5
        <4>1. j - 1 \in 1 .. n /\ k - 1 = m + (j - 1) /\ e - 1 = d + (j - 1)
          BY ONLY <1>1, <3>1, <4>0
        <4>2. r[k - 1] = Part(c, e - 1)
          BY <1>2, <4>1
        <4>3. Part(c, e) = <<Part(c, e - 1)[1], 2>>
          BY <3>1, <3>3, <3>5, PartIs
        <4> QED
          BY ONLY <3>2, <3>5, <4>2, <4>3
      <3> QED
        BY <3>4, <3>5
    <2> QED
      BY <1>1, <2>1, <2>2
  <1>6. ASSUME NEW j \in 1 .. m + n, NEW k \in 1 .. m + n, j < k, r[j][2] = r[k][2], r[j][1][1] = r[k][1][1]
        PROVE  r[j][1][2] < r[k][1][2]
    <2>1. CASE k <= m
      <3>1. j \in 1 .. m /\ k \in 1 .. m
        BY ONLY <1>1, <1>6, <2>1, j \in 1 .. m + n, k \in 1 .. m + n
      <3>2. r[j] = q[j] /\ r[k] = q[k]
        BY <1>2, <3>1
      <3> QED
        BY <1>6, <1>8, <3>1, <3>2 DEF WholeInOrder
    <2>2. CASE k > m
      <3>6. PICK y \in 1 .. n : k = m + y
        BY <1>1, <2>2
      <3>1. y \in 1 .. n /\ k = m + y /\ d + y \in Nat
        BY <1>1, <3>6
      <3>2. r[k] = Part(c, d + y)
        BY <1>2, <3>1
      <3>3. r[k][1][1] = c /\ 2 * r[k][1][2] >= d + y /\ r[k][1][2] \in Nat
        BY <3>1, <3>2 DEF Part
      <3>4. CASE j <= m
        <4>1. j \in 1 .. m /\ r[j] = q[j] /\ q[j] \in S
          BY <1>1, <1>2, <1>3, <3>4
        <4>2. 2 * r[j][1][2] <= d
          BY <1>6, <1>8, <3>3, <4>1 DEF UpTo
        <4>3. r[j][1][2] \in Nat
          BY <4>1, MaxLinesAssumption DEF Lines
        <4>4. \A u, v \in Nat : 2 * u <= d /\ 2 * v >= d + y => u < v
          OBVIOUS
        <4> QED
          BY <3>3, <4>2, <4>3, <4>4
      <3>5. CASE j > m
        <4>7. PICK x \in 1 .. n : j = m + x
          BY <1>1, <3>5
        <4>1. x \in 1 .. n /\ j = m + x /\ d + x \in Nat /\ x < y
          BY <1>1, <1>6, <3>1, <4>7
        <4>2. r[j] = Part(c, d + x)
          BY <1>2, <4>1
        <4>3. /\ r[j][1][2] = (d + x + 1) \div 2 /\ r[j][2] = 2 - ((d + x) % 2)
              /\ r[k][1][2] = (d + y + 1) \div 2 /\ r[k][2] = 2 - ((d + y) % 2)
          BY <3>2, <4>2 DEF Part
        <4>4. (d + x) % 2 = (d + y) % 2
          BY <1>6, <3>1, <4>1, <4>3
        <4>5. d + x + 2 <= d + y
          <5>1. d + x \in Nat /\ d + y \in Nat /\ d + x < d + y
            BY <4>1
          <5> QED
            BY <4>4, <5>1, Parity
        <4>6. (d + x + 1) \div 2 < (d + y + 1) \div 2
          BY ONLY <3>1, <4>1, <4>5
        <4> QED
          BY <4>3, <4>6
      <3> QED
        BY <1>1, <3>4, <3>5
    <2> QED
      BY <1>1, <2>1, <2>2
  <1> QED
    BY <1>2, <1>5, <1>6 DEF WholeInOrder, r

LEMMA UpToMore ==
  ASSUME NEW q \in Seq(Lines \X {1, 2}), NEW c, NEW k \in Int, NEW l \in Int, k <= l, UpTo(q, c, k)
  PROVE  UpTo(q, c, l)
  <1>1. \A j \in 1 .. Len(q) : q[j][1][2] \in Nat
    BY MaxLinesAssumption DEF Lines
  <1> QED
    BY <1>1 DEF UpTo

\* Behind q, the lines of c that are whole when part d + Len(b) has come.
LEMMA UpToFollow ==
  ASSUME NEW c, NEW e, NEW d \in Nat, NEW k \in Int, NEW b \in Seq(Lines \X {1, 2}),
         NEW q \in Seq(Lines \X {1, 2}), UpTo(q, e, k),
         (d + Len(b)) % 2 = 0, \A j \in 1 .. Len(b) : b[j] = Part(c, d + j),
         e = c => d + Len(b) <= k
  PROVE  UpTo(q \o b, e, k)
  <1> DEFINE S == Lines \X {1, 2}
             r == q \o b
  <1>8. PICK m \in Nat : m = Len(q)
    BY LenProperties
  <1>9. PICK n \in Nat : n = Len(b)
    BY LenProperties
  <1>1. m \in Nat /\ n \in Nat
    OBVIOUS
  <1>2. Len(r) = m + n /\ \A j \in 1 .. m + n : r[j] = IF j <= m THEN q[j] ELSE b[j - m]
    <2> HIDE DEF S
    <2>1. q \in Seq(S) /\ b \in Seq(S)
      BY DEF S
    <2> QED
      BY <1>8, <1>9, <2>1, ConcatProperties
  <1> HIDE DEF r
  <1>3. ASSUME NEW j \in 1 .. m + n, r[j][1][1] = e
        PROVE  2 * r[j][1][2] <= k
    <2>1. CASE j <= m
      <3>1. j \in 1 .. m /\ r[j] = q[j]
        BY <1>1, <1>2, <2>1
      <3> QED
        BY <1>3, <1>8, <3>1 DEF UpTo
    <2>2. CASE j > m
      <3>6. PICK x \in 1 .. n : j = m + x
        BY <1>1, <2>2
      <3>7. PICK z \in Nat : z = d + x
        BY <1>1
      <3>1. x \in 1 .. n /\ z \in Nat /\ z <= d + n /\ d + n \in Nat
        BY ONLY <3>6, <3>7, <1>1, d \in Nat
      <3>0. (d + n) % 2 = 0
        BY <1>9
      <3>2. r[j] = Part(c, z)
        <4>1. r[j] = b[x]
          BY <1>2, <2>2, <3>6
        <4> QED
          BY <1>9, <3>7, <4>1
      <3>3. e = c /\ 2 * r[j][1][2] <= z + (z % 2) /\ r[j][1][2] \in Nat
        <4>1. Part(c, z)[1][1] = c /\ Part(c, z)[1][2] = (z + 1) \div 2
          BY DEF Part
        <4>2. 2 * ((z + 1) \div 2) <= z + (z % 2) /\ (z + 1) \div 2 \in Nat
          BY Parity
        <4> QED
          BY ONLY <1>3, <3>2, <4>1, <4>2
      <3>4. z + (z % 2) <= d + n
        BY <3>0, <3>1, Parity
      <3>5. d + n <= k
        BY <1>9, <3>3
      <3> QED
        BY ONLY <3>1, <3>3, <3>4, <3>5, k \in Int
    <2> QED
      BY <1>1, <2>1, <2>2
  <1> QED
    BY <1>2, <1>3 DEF UpTo, r

-----------------------------------------------------------------------------
(* As long as nobody has left and no thread was given another's client      *)

CalmNow == TypedInv /\ Calm /\ ThreadsInPlace /\ PartsFollow /\ BufferIsNew /\ Told

LEMMA StepWasCalm ==
  ASSUME TypedInv, [Next]_vars, Calm'
  PROVE  Calm
  <1> USE DEF Calm, NobodyLeft, TypedInv, ListInv, OneThreadEach, server, thread, people
  <1>1. state' = state \/ (\E c \in Clients : state' = [state EXCEPT ![c] = "left"])
                       \/ (\E c \in Clients : state[c] = "away" /\ state' = [state EXCEPT ![c] = "in"])
    <2>1. CASE UNCHANGED vars
      BY <2>1 DEF vars
    <2>2. CASE Admit
      BY <2>2 DEF Admit, Reject, Accepted, AddClient
    <2>3. ASSUME NEW c \in Clients, accept(c) PROVE state[c] = "away" /\ state' = [state EXCEPT ![c] = "in"]
      BY <2>3 DEF accept
    <2>4. ASSUME NEW c \in Clients, close_client(c) PROVE state' = [state EXCEPT ![c] = "left"]
      BY <2>4 DEF close_client
    <2>5. ASSUME NEW c \in Clients, write_to_server(c) PROVE state' = state
      BY <2>5 DEF write_to_server
    <2>6. ASSUME NEW t \in Clients, processClient(t) PROVE state' = state
      <3>1. CASE TakeArgument(t) \/ Read(t) \/ ReadEnd(t) \/ ReadFails(t)
        BY <3>1 DEF TakeArgument, Read, ReadEnd, ReadFails
      <3>2. CASE WriteToOne(t) \/ WroteToAll(t) \/ CloseSocket(t) \/ Leave(t)
        BY <3>2 DEF WriteToOne, WroteToAll, CloseSocket, Leave
      <3> QED
        BY <2>6, <3>1, <3>2 DEF processClient
    <2> QED
      BY <2>1, <2>2, <2>3, <2>4, <2>5, <2>6 DEF Next
  <1>2. NobodyLeft
    BY <1>1
  <1>3. raced' = raced \/ (\E t \in Clients : raced' = (raced \/ guest # t))
    <2>1. CASE UNCHANGED vars
      BY <2>1 DEF vars
    <2>2. CASE Admit
      BY <2>2 DEF Admit, Reject, Accepted, AddClient
    <2>3. ASSUME NEW c \in Clients, accept(c) \/ close_client(c) \/ write_to_server(c) PROVE raced' = raced
      BY <2>3 DEF accept, close_client, write_to_server
    <2>4. ASSUME NEW t \in Clients, processClient(t) PROVE raced' = raced \/ raced' = (raced \/ guest # t)
      <3>1. CASE TakeArgument(t)
        BY <3>1 DEF TakeArgument
      <3>2. CASE Read(t) \/ ReadEnd(t) \/ ReadFails(t)
        BY <3>2 DEF Read, ReadEnd, ReadFails
      <3>3. CASE WriteToOne(t) \/ WroteToAll(t) \/ CloseSocket(t) \/ Leave(t)
        BY <3>3 DEF WriteToOne, WroteToAll, CloseSocket, Leave
      <3> QED
        BY <2>4, <3>1, <3>2, <3>3 DEF processClient
    <2> QED
      BY <2>1, <2>2, <2>3, <2>4 DEF Next
  <1>4. ~raced
    BY <1>3
  <1> QED
    BY <1>2, <1>4

(* No thread ends.                                                          *)
LEMMA NobodyEnds ==
  ASSUME CalmNow, NEW t \in Clients
  PROVE  ~ReadEnd(t) /\ ~CloseSocket(t) /\ ~Leave(t)
  <1>1. ~ReadEnd(t)
    BY DEF CalmNow, Calm, NobodyLeft, ThreadsInPlace, ReadEnd
  <1>2. ~CloseSocket(t) /\ ~Leave(t)
    BY DEF CalmNow, ThreadsInPlace, CloseSocket, Leave
  <1> QED
    BY <1>1, <1>2

(* Where the threads are, and the list.                                     *)
LEMMA MainKeepsPlaces ==
  ASSUME CalmNow, Admit
  PROVE  ThreadsInPlace'
  <1> USE DEF thread, people, ThreadsInPlace, Served
  <1>0. \A t \in Clients : pc[t] \in {"none", "start", "read", "write"}
    BY DEF CalmNow, TypedInv, ListInv, OneThreadEach
  <1>1. CASE Reject
    <2>1. /\ guest \in Clients /\ pc[guest] = "none" /\ client_fd \in DOMAIN peer /\ peer[client_fd] = guest
          /\ DOMAIN peer' = DOMAIN peer \ {client_fd} /\ \A f \in DOMAIN peer' : peer'[f] = peer[f]
          /\ main' = "accept" /\ UNCHANGED <<guest, client_fd, clients, clientsConnected, pc, fd>>
      BY <1>1 DEF Reject, Close, CalmNow, TypedInv, ListInv, OneThreadEach
    <2>2. ASSUME NEW t \in Clients, pc[t] \in {"read", "write"} PROVE fd[t] \in DOMAIN peer' /\ peer'[fd[t]] = t
      BY <2>1, <2>2 DEF CalmNow
    <2>3. ASSUME NEW k \in 0 .. clientsConnected - 1
          PROVE  clients[k] \in DOMAIN peer' /\ Served(peer'[clients[k]])
      BY <2>1 DEF CalmNow
    <2> QED
      BY <2>1, <2>2, <2>3 DEF CalmNow
  <1>2. CASE Accepted
    BY <1>2 DEF Accepted, CalmNow
  <1>3. CASE AddClient
    <2>1. /\ guest \in Clients /\ pc[guest] = "none" /\ client_fd \in DOMAIN peer /\ peer[client_fd] = guest
          /\ pc' = [pc EXCEPT ![guest] = "start"] /\ clientsConnected' = clientsConnected + 1
          /\ main' = "accept" /\ UNCHANGED <<guest, client_fd, peer, fd>>
      BY <1>3 DEF AddClient, CalmNow, TypedInv, ListInv, OneThreadEach
    <2>2. clientsConnected \in Nat
      BY CountIsNat DEF CalmNow, TypedInv, ListInv
    <2>3. clients' = [k \in DOMAIN clients \cup {clientsConnected} |->
                        IF k = clientsConnected THEN client_fd ELSE clients[k]]
      BY <1>3 DEF AddClient
    <2>4. /\ clients'[clientsConnected] = client_fd
          /\ \A k \in 0 .. clientsConnected - 1 : clients'[k] = clients[k]
      <3>1. DOMAIN clients = 0 .. MAX_CLIENTS - 1 /\ clientsConnected <= MAX_CLIENTS
        BY DEF CalmNow, TypedInv, ListInv, ListInBounds
      <3>2. \A k \in 0 .. clientsConnected - 1 : k \in DOMAIN clients /\ k # clientsConnected
        BY <2>2, <3>1, MaxClientsAssumption
      <3> QED
        BY <2>3, <3>2
    <2>5. pc'[guest] = "start" /\ \A t \in Clients \ {guest} : pc'[t] = pc[t]
      BY <2>1 DEF CalmNow, TypedInv, ListInv, OneThreadEach
    <2>6. ASSUME NEW t \in Clients
          PROVE  /\ pc'[t] \notin {"close", "leave", "gone"}
                 /\ pc'[t] \in {"read", "write"} => fd'[t] \in DOMAIN peer' /\ peer'[fd'[t]] = t
      BY <2>1, <2>5 DEF CalmNow
    <2>7. ASSUME NEW k \in 0 .. clientsConnected
          PROVE  clients'[k] \in DOMAIN peer /\ pc'[peer[clients'[k]]] \notin {"none", "gone"}
      <3>1. CASE k = clientsConnected
        BY <2>1, <2>4, <2>5, <3>1
      <3>2. CASE k \in 0 .. clientsConnected - 1
        <4>1. peer[clients[k]] \in Clients
          BY <3>2 DEF CalmNow, TypedInv, OpenEnds
        <4> QED
          BY <2>1, <2>4, <2>5, <3>2, <4>1 DEF CalmNow
      <3> QED
        BY <2>2, <3>1, <3>2
    <2>8. \A j \in 0 .. clientsConnected - 1 : clients[j] # client_fd
      BY <2>1 DEF CalmNow
    <2>9. ASSUME NEW j \in 0 .. clientsConnected, NEW k \in 0 .. clientsConnected, clients'[j] = clients'[k]
          PROVE  j = k
      BY <2>2, <2>4, <2>8, <2>9 DEF CalmNow
    <2>10. 0 .. clientsConnected' - 1 = 0 .. clientsConnected
      BY <2>1, <2>2
    <2> QED
      BY <2>1, <2>6, <2>7, <2>9, <2>10
  <1> QED
    BY <1>1, <1>2, <1>3 DEF Admit

LEMMA acceptKeepsPlaces ==
  ASSUME CalmNow, NEW c \in Clients, accept(c)
  PROVE  ThreadsInPlace'
  <1> USE DEF ThreadsInPlace, Served
  <1> DEFINE d == LowestFree
  <1>1. d \in Descriptors \ DOMAIN peer
    BY DescriptorIsLeft DEF accept, CalmNow, TypedInv
  <1>2. DOMAIN peer' = DOMAIN peer \cup {d} /\ peer'[d] = c /\ \A f \in DOMAIN peer : peer'[f] = peer[f]
    BY <1>1 DEF accept
  <1>3. client_fd' = d /\ guest' = c /\ UNCHANGED <<clients, clientsConnected, pc, fd>>
    BY DEF accept, thread
  <1> HIDE DEF d
  <1> QED
    BY <1>2, <1>3 DEF CalmNow

LEMMA StepKeepsPlaces ==
  ASSUME CalmNow, [Next]_vars, Calm'
  PROVE  ThreadsInPlace'
  <1> USE DEF server, thread, people
  <1>1. ASSUME UNCHANGED <<main, guest, client_fd, clients, clientsConnected, peer, pc, fd>>
        PROVE  ThreadsInPlace'
    BY <1>1 DEF CalmNow, ThreadsInPlace, Served
  <1>2. CASE UNCHANGED vars
    BY <1>1, <1>2 DEF vars
  <1>3. ASSUME NEW c \in Clients, write_to_server(c) \/ close_client(c) PROVE ThreadsInPlace'
    BY <1>1, <1>3 DEF write_to_server, close_client
  <1>4. ASSUME NEW t \in Clients, processClient(t) PROVE ThreadsInPlace'
    <2> USE DEF ThreadsInPlace, Served
    <2>0. pc \in [Clients -> {"none", "start", "read", "write", "close", "leave", "gone"}]
      BY DEF CalmNow, TypedInv, ListInv, OneThreadEach
    <2>1. CASE TakeArgument(t)
      <3>1. /\ pc[t] = "start" /\ fd' = [fd EXCEPT ![t] = client_fd] /\ pc' = [pc EXCEPT ![t] = "read"]
            /\ UNCHANGED <<main, guest, client_fd, clients, clientsConnected, peer>>
            /\ guest = t
        BY <2>1 DEF TakeArgument, Calm
      <3>2. client_fd \in DOMAIN peer /\ peer[client_fd] = t
        BY <3>1 DEF CalmNow
      <3>3. pc'[t] = "read" /\ \A c \in Clients \ {t} : pc'[c] = pc[c]
        BY <2>0, <3>1
      <3>4. fd'[t] = client_fd /\ \A c \in Clients \ {t} : fd'[c] = fd[c]
        BY <3>1 DEF CalmNow, TypedInv, OpenEnds
      <3>6. \A c \in Clients :
              /\ pc'[c] \notin {"close", "leave", "gone"}
              /\ pc'[c] \in {"read", "write"} => fd'[c] \in DOMAIN peer' /\ peer'[fd'[c]] = c
        BY <3>1, <3>2, <3>3, <3>4 DEF CalmNow
      <3>7. \A k \in 0 .. clientsConnected - 1 :
              clients[k] \in DOMAIN peer /\ pc'[peer[clients[k]]] \notin {"none", "gone"}
        BY <3>3 DEF CalmNow, TypedInv, OpenEnds
      <3> QED
        BY <3>1, <3>2, <3>6, <3>7 DEF CalmNow
    <2>2. ASSUME NEW place \in {"read", "write"}, Served(t), pc[t] \in {"read", "write"},
                 pc' = [pc EXCEPT ![t] = place],
                 UNCHANGED <<main, guest, client_fd, clients, clientsConnected, peer, fd>>
          PROVE  ThreadsInPlace'
      <3>1. pc'[t] = place /\ \A c \in Clients \ {t} : pc'[c] = pc[c]
        BY <2>0, <2>2
      <3>2. \A k \in 0 .. clientsConnected - 1 : clients[k] \in DOMAIN peer /\ Served(peer[clients[k]])'
        BY <2>2, <3>1 DEF CalmNow, TypedInv, OpenEnds
      <3> QED
        BY <2>2, <3>1, <3>2 DEF CalmNow
    <2>3. CASE Read(t)
      <3>1. /\ pc[t] = "read"
            /\ pc' = [pc EXCEPT ![t] = "write"] \/ pc' = [pc EXCEPT ![t] = "read"]
            /\ UNCHANGED <<main, guest, client_fd, clients, clientsConnected, peer, fd>>
        BY <2>0, <2>3 DEF Read, Collect
      <3> QED
        BY <2>2, <3>1
    <2>4. CASE WroteToAll(t)
      BY <2>2, <2>4 DEF WroteToAll
    <2>5. CASE ReadFails(t) \/ WriteToOne(t)
      BY <1>1, <2>5 DEF ReadFails, WriteToOne
    <2> QED
      BY <1>4, <2>1, <2>3, <2>4, <2>5, NobodyEnds DEF processClient
  <1> QED
    BY <1>2, <1>3, <1>4, MainKeepsPlaces, acceptKeepsPlaces DEF Next

(* What is on the way to whom.                                              *)
LEMMA Counts ==
  ASSUME CalmNow, NEW c \in Clients
  PROVE  /\ Done(c) \in Nat /\ Done(c) % 2 = 0 /\ sent[c] \in Nat /\ i[c] \in Nat
         /\ Len(buffer[c]) \in Nat /\ Len(stream[c]) \in Nat
         /\ buffer[c] \in Seq(Lines \X {1, 2}) /\ stream[c] \in Seq(Lines \X {1, 2})
         /\ heard[c] \in Seq(Lines \X {1, 2})
         /\ 2 * sent[c] = Done(c) + Len(buffer[c]) + Len(stream[c])
         /\ clientsConnected \in Nat
  <1>1. sent[c] \in Nat /\ i[c] \in Nat
    BY MaxLinesAssumption, MaxClientsAssumption DEF CalmNow, TypedInv, Spoken
  <1>2. /\ buffer[c] \in Seq(Lines \X {1, 2}) /\ stream[c] \in Seq(Lines \X {1, 2})
        /\ heard[c] \in Seq(Lines \X {1, 2})
    BY DEF CalmNow, TypedInv, Spoken
  <1>3. Len(buffer[c]) \in Nat /\ Len(stream[c]) \in Nat
    BY <1>2, LenProperties
  <1>4. Done(c) >= 0 /\ Done(c) % 2 = 0
    BY DEF CalmNow, PartsFollow
  <1>5. Done(c) = 2 * sent[c] - Len(buffer[c]) - Len(stream[c])
    BY DEF Done
  <1>6. clientsConnected \in Nat
    BY CountIsNat DEF CalmNow, TypedInv, ListInv
  <1>7. Done(c) \in Nat /\ 2 * sent[c] = Done(c) + Len(buffer[c]) + Len(stream[c])
    <2>1. \A s, b, r \in Int : 2 * s - b - r \in Int /\ 2 * s = (2 * s - b - r) + b + r
      OBVIOUS
    <2>2. Done(c) \in Int /\ 2 * sent[c] = Done(c) + Len(buffer[c]) + Len(stream[c])
      BY <1>1, <1>3, <1>5, <2>1
    <2> QED
      BY <1>4, <2>2
  <1> QED
    BY <1>1, <1>2, <1>3, <1>4, <1>6, <1>7

\* A step that says, takes and writes nothing.
LEMMA SilenceKeepsParts ==
  ASSUME CalmNow, UNCHANGED <<sent, buffer, stream, heard, i>>,
         \A c \in Clients : pc'[c] = pc[c] \/ (pc'[c] \notin {"none", "write"} /\ pc[c] # "write")
  PROVE  PartsFollow'
  BY DEF CalmNow, PartsFollow, Done

LEMMA SilenceKeepsNew ==
  ASSUME CalmNow, UNCHANGED <<sent, buffer, stream, heard, i, clients, clientsConnected>>,
         \A k \in 0 .. clientsConnected - 1 : peer'[clients[k]] = peer[clients[k]]
  PROVE  BufferIsNew'
  <1> SUFFICES ASSUME NEW c \in Clients, NEW h \in Clients
               PROVE  /\ UpTo(heard[h], c, Done(c) + Len(buffer[c]))
                      /\ \A k \in i[c] .. clientsConnected - 1 :
                            peer'[clients[k]] = h => UpTo(heard[h], c, Done(c))
    BY DEF BufferIsNew, UpTo, Done
  <1>1. i[c] \in Nat /\ clientsConnected \in Nat
    BY Counts
  <1>2. \A k \in i[c] .. clientsConnected - 1 : k \in 0 .. clientsConnected - 1
    BY <1>1
  <1> QED
    BY <1>2 DEF CalmNow, BufferIsNew

LEMMA AddClientKeepsParts ==
  ASSUME CalmNow, AddClient
  PROVE  PartsFollow' /\ BufferIsNew' /\ Told'
  <1>1. /\ guest \in Clients /\ pc[guest] = "none" /\ peer[client_fd] = guest
        /\ pc' = [pc EXCEPT ![guest] = "start"] /\ clientsConnected' = clientsConnected + 1
        /\ UNCHANGED <<peer, sent, buffer, stream, heard, i>>
    BY DEF AddClient, CalmNow, ThreadsInPlace, TypedInv, ListInv, OneThreadEach, people
  <1>2. pc'[guest] = "start" /\ \A c \in Clients \ {guest} : pc'[c] = pc[c]
    BY <1>1 DEF CalmNow, TypedInv, ListInv, OneThreadEach
  <1>3. PartsFollow'
    BY <1>1, <1>2, SilenceKeepsParts
  <1>4. heard[guest] = << >>
    BY <1>1 DEF CalmNow, PartsFollow
  <1>5. ASSUME NEW c \in Clients, NEW h \in Clients
        PROVE  /\ UpTo(heard[h], c, Done(c) + Len(buffer[c]))
               /\ \A k \in i[c] .. clientsConnected : peer[clients'[k]] = h => UpTo(heard[h], c, Done(c))
    <2>1. i[c] \in Nat /\ clientsConnected \in Nat
      BY Counts
    <2>2. UpTo(heard[h], c, Done(c) + Len(buffer[c]))
      BY DEF CalmNow, BufferIsNew
    <2>3. ASSUME NEW k \in i[c] .. clientsConnected, peer[clients'[k]] = h
          PROVE  UpTo(heard[h], c, Done(c))
      <3>1. DOMAIN clients = 0 .. MAX_CLIENTS - 1 /\ clientsConnected <= MAX_CLIENTS
        BY DEF CalmNow, TypedInv, ListInv, ListInBounds
      <3>2. CASE k = clientsConnected
        <4>1. clients'[k] = client_fd
          BY <3>2 DEF AddClient
        <4>2. heard[h] = << >>
          BY <1>1, <1>4, <2>3, <4>1
        <4> QED
          BY <4>2 DEF UpTo
      <3>3. CASE k # clientsConnected
        <4>1. k \in i[c] .. clientsConnected - 1 /\ k \in 0 .. MAX_CLIENTS - 1
          BY <2>1, <3>1, <3>3, MaxClientsAssumption
        <4>2. clients'[k] = clients[k]
          BY <3>1, <3>3, <4>1 DEF AddClient
        <4> QED
          BY <2>3, <4>1, <4>2 DEF CalmNow, BufferIsNew
      <3> QED
        BY <3>2, <3>3
    <2> QED
      BY <2>2, <2>3
  <1>6. BufferIsNew'
    <2>1. clientsConnected' - 1 = clientsConnected
      BY <1>1, CountIsNat DEF CalmNow, TypedInv, ListInv
    <2> QED
      BY <1>1, <1>5, <2>1 DEF BufferIsNew, UpTo, Done
  <1>7. Told'
    BY <1>1 DEF CalmNow, Told, WholeInOrder
  <1> QED
    BY <1>3, <1>6, <1>7

LEMMA MainKeepsParts ==
  ASSUME CalmNow, Reject \/ Accepted \/ (\E c \in Clients : accept(c))
  PROVE  PartsFollow' /\ BufferIsNew' /\ Told'
  <1>1. UNCHANGED <<sent, buffer, stream, heard, i, clients, clientsConnected, pc>>
    BY DEF Reject, Accepted, accept, thread, people
  <1>2. \A k \in 0 .. clientsConnected - 1 : peer'[clients[k]] = peer[clients[k]]
    <2>1. CASE Reject
      <3>1. /\ guest \in Clients /\ pc[guest] = "none" /\ peer[client_fd] = guest
            /\ \A f \in DOMAIN peer \ {client_fd} : peer'[f] = peer[f]
        BY <2>1 DEF Reject, Close, CalmNow, ThreadsInPlace, TypedInv, ListInv, OneThreadEach
      <3> QED
        BY <3>1 DEF CalmNow, ThreadsInPlace, Served
    <2>2. CASE Accepted
      BY <2>2 DEF Accepted
    <2>3. ASSUME NEW c \in Clients, accept(c)
          PROVE  \A k \in 0 .. clientsConnected - 1 : peer'[clients[k]] = peer[clients[k]]
      <3>1. LowestFree \notin DOMAIN peer
        BY <2>3, DescriptorIsLeft DEF accept, CalmNow, TypedInv
      <3>2. \A f \in DOMAIN peer : peer'[f] = peer[f]
        BY <2>3, <3>1 DEF accept
      <3> QED
        BY <3>2 DEF CalmNow, ThreadsInPlace
    <2> QED
      BY <2>1, <2>2, <2>3
  <1>3. PartsFollow'
    BY <1>1, SilenceKeepsParts
  <1>4. BufferIsNew'
    BY <1>1, <1>2, SilenceKeepsNew
  <1>5. Told'
    BY <1>1 DEF CalmNow, Told, WholeInOrder
  <1> QED
    BY <1>3, <1>4, <1>5

LEMMA QuietKeepsParts ==
  ASSUME CalmNow, UNCHANGED vars \/ (\E c \in Clients : close_client(c) \/ TakeArgument(c) \/ ReadFails(c))
  PROVE  PartsFollow' /\ BufferIsNew' /\ Told'
  <1> USE DEF vars, server, thread, people
  <1>1. UNCHANGED <<sent, buffer, stream, heard, i, clients, clientsConnected, peer>>
    BY DEF close_client, TakeArgument, ReadFails
  <1>2. \A c \in Clients : pc'[c] = pc[c] \/ (pc'[c] \notin {"none", "write"} /\ pc[c] # "write")
    BY DEF close_client, TakeArgument, ReadFails, CalmNow, TypedInv, ListInv, OneThreadEach
  <1>3. PartsFollow'
    BY <1>1, <1>2, SilenceKeepsParts
  <1>4. BufferIsNew'
    BY <1>1, SilenceKeepsNew
  <1>5. Told'
    BY <1>1 DEF CalmNow, Told, WholeInOrder
  <1> QED
    BY <1>3, <1>4, <1>5

(* c says its next line: it goes behind the others.                         *)
LEMMA SayingKeepsParts ==
  ASSUME CalmNow, NEW c \in Clients, write_to_server(c)
  PROVE  PartsFollow' /\ BufferIsNew' /\ Told'
  <1> DEFINE S == Lines \X {1, 2}
             line == <<c, sent[c] + 1>>
             more == Parts(line)
  <1>1. /\ sent' = [sent EXCEPT ![c] = @ + 1] /\ stream' = [stream EXCEPT ![c] = @ \o more]
        /\ UNCHANGED <<buffer, heard, i, pc, clients, clientsConnected, peer>>
    BY DEF write_to_server, server, thread
  <1>2. sent'[c] = sent[c] + 1 /\ stream'[c] = stream[c] \o more
    BY <1>1 DEF CalmNow, TypedInv, Spoken
  <1>3. \A b \in Clients \ {c} : sent'[b] = sent[b] /\ stream'[b] = stream[b]
    BY <1>1 DEF CalmNow, TypedInv, Spoken
  <1>4. PICK m \in Nat : m = Len(stream[c])
    BY Counts
  <1>5. PICK d \in Nat : d = Done(c) + Len(buffer[c])
    BY Counts
  <1>6. d + m = 2 * sent[c] /\ sent[c] \in Nat
    BY <1>4, <1>5, Counts
  <1>7. /\ Len(stream'[c]) = m + 2 /\ \A k \in 1 .. m : stream'[c][k] = stream[c][k]
        /\ stream'[c][m + 1] = <<line, 1>> /\ stream'[c][m + 2] = <<line, 2>>
    <2>1. line \in Lines
      BY LineIsLeft DEF write_to_server, CalmNow, TypedInv, Lines
    <2>2. more \in Seq(S) /\ Len(more) = 2 /\ more[1] = <<line, 1>> /\ more[2] = <<line, 2>>
      BY <2>1 DEF Parts
    <2>3. stream[c] \in Seq(S)
      BY Counts
    <2> HIDE DEF S, more
    <2>4. /\ Len(stream'[c]) = m + 2
          /\ \A k \in 1 .. m + 2 : stream'[c][k] = IF k <= m THEN stream[c][k] ELSE more[k - m]
      <3>1. /\ Len(stream[c] \o more) = Len(stream[c]) + Len(more)
            /\ \A k \in 1 .. Len(stream[c]) + Len(more) :
                  (stream[c] \o more)[k] = IF k <= Len(stream[c]) THEN stream[c][k] ELSE more[k - Len(stream[c])]
        BY <2>2, <2>3, ConcatProperties
      <3> QED
        BY <1>2, <1>4, <2>2, <3>1
    <2>5. stream'[c][m + 1] = more[m + 1 - m] /\ stream'[c][m + 2] = more[m + 2 - m]
      BY <2>4
    <2> QED
      BY <2>2, <2>4, <2>5
  <1>8. \A b \in Clients : Done(b)' = Done(b)
    <2>1. ASSUME NEW b \in Clients PROVE Done(b)' = Done(b)
      <3>1. CASE b = c
        <4>1. Done(c)' = 2 * (sent[c] + 1) - Len(buffer[c]) - (m + 2)
          BY <1>1, <1>2, <1>7 DEF Done
        <4>2. Done(c) = 2 * sent[c] - Len(buffer[c]) - m
          BY <1>4 DEF Done
        <4> QED
          <5>1. Len(buffer[c]) \in Nat
            BY Counts
          <5>2. 2 * (sent[c] + 1) - Len(buffer[c]) - (m + 2) = 2 * sent[c] - Len(buffer[c]) - m
            <6>1. \A p, q \in Nat : 2 * (p + 1) - q - (m + 2) = 2 * p - q - m
              OBVIOUS
            <6> QED
              BY <1>6, <5>1, <6>1
          <5> QED
            BY <3>1, <4>1, <4>2, <5>2
      <3>2. CASE b # c
        BY <1>1, <1>3, <3>2 DEF Done
      <3> QED
        BY <3>1, <3>2
    <2> QED
      BY <2>1
  <1>9. \A k \in 1 .. m + 2 : stream'[c][k] = Part(c, d + k)
    <2>1. ASSUME NEW k \in 1 .. m + 2 PROVE stream'[c][k] = Part(c, d + k)
      <3>1. CASE k \in 1 .. m
        BY <1>4, <1>5, <1>7, <3>1 DEF CalmNow, PartsFollow
      <3>2. \A n \in Nat : (2 * n + 1 + 1) \div 2 = n + 1 /\ (2 * n + 1) % 2 = 1
                        /\ (2 * n + 2 + 1) \div 2 = n + 1 /\ (2 * n + 2) % 2 = 0
        OBVIOUS
      <3>3. Part(c, 2 * sent[c] + 1) = <<line, 1>> /\ Part(c, 2 * sent[c] + 2) = <<line, 2>>
        <4>1. PICK n \in Nat : n = sent[c]
          BY <1>6
        <4>2. Part(c, 2 * n + 1) = <<<<c, n + 1>>, 1>> /\ Part(c, 2 * n + 2) = <<<<c, n + 1>>, 2>>
          BY <3>2 DEF Part
        <4> QED
          BY <4>1, <4>2
      <3>4. d + (m + 1) = 2 * sent[c] + 1 /\ d + (m + 2) = 2 * sent[c] + 2
        BY <1>6
      <3>5. k \in 1 .. m \/ k = m + 1 \/ k = m + 2
        OBVIOUS
      <3> QED
        BY <1>7, <3>1, <3>3, <3>4, <3>5
    <2> QED
      BY <2>1
  <1>10. PartsFollow'
    <2>1. ASSUME NEW b \in Clients
          PROVE  \A k \in 1 .. Len(stream'[b]) : stream'[b][k] = Part(b, Done(b) + Len(buffer[b]) + k)
      <3>1. CASE b = c
        BY <1>5, <1>7, <1>9, <3>1
      <3>2. CASE b # c
        BY <1>3, <3>2 DEF CalmNow, PartsFollow
      <3> QED
        BY <3>1, <3>2
    <2> HIDE DEF S, more
    <2> QED
      <3>1. ASSUME NEW b \in Clients
            PROVE  /\ Done(b)' >= 0 /\ Done(b)' % 2 = 0
                   /\ \A k \in 1 .. Len(buffer'[b]) : buffer'[b][k] = Part(b, Done(b)' + k)
                   /\ \A k \in 1 .. Len(stream'[b]) : stream'[b][k] = Part(b, Done(b)' + Len(buffer'[b]) + k)
                   /\ pc'[b] = "write" => Len(buffer'[b]) % 2 = 0
                   /\ pc'[b] # "write" => i'[b] = 0
                   /\ pc'[b] = "none" => heard'[b] = << >>
        <4>1. Done(b)' = Done(b) /\ buffer'[b] = buffer[b] /\ pc'[b] = pc[b] /\ i'[b] = i[b] /\ heard'[b] = heard[b]
          BY <1>1, <1>8
        <4>2. /\ Done(b) >= 0 /\ Done(b) % 2 = 0
              /\ \A k \in 1 .. Len(buffer[b]) : buffer[b][k] = Part(b, Done(b) + k)
              /\ pc[b] = "write" => Len(buffer[b]) % 2 = 0
              /\ pc[b] # "write" => i[b] = 0
              /\ pc[b] = "none" => heard[b] = << >>
          BY DEF CalmNow, PartsFollow
        <4> QED
          BY <2>1, <4>1, <4>2
      <3> QED
        BY <3>1 DEF PartsFollow
  <1>11. BufferIsNew'
    BY <1>1, <1>8 DEF CalmNow, BufferIsNew, UpTo
  <1>12. Told'
    BY <1>1 DEF CalmNow, Told, WholeInOrder
  <1> QED
    BY <1>10, <1>11, <1>12

(* The thread takes the next parts of its client's, all that are there or    *)
(* fewer, and is done collecting when the last ends a line.                  *)
LEMMA ReadKeepsParts ==
  ASSUME CalmNow, NEW t \in Clients, Read(t)
  PROVE  PartsFollow' /\ BufferIsNew' /\ Told'
  <1> DEFINE S == Lines \X {1, 2}
  <1>1. /\ peer[fd[t]] = t /\ pc[t] = "read"
        /\ UNCHANGED <<sent, heard, i, clients, clientsConnected, peer>>
    BY DEF Read, CalmNow, ThreadsInPlace, server
  <1>2. PICK n \in 1 .. Len(stream[t]) :
            /\ Collect(t, SubSeq(stream[t], 1, n))
            /\ stream' = [stream EXCEPT ![t] = SubSeq(@, n + 1, Len(@))]
    BY <1>1 DEF Read
  <1> DEFINE a == SubSeq(stream[t], 1, n)
             z == SubSeq(stream[t], n + 1, Len(stream[t]))
  <1>3. PICK m \in Nat : m = Len(stream[t])
    BY Counts
  <1>4. PICK l \in Nat : l = Len(buffer[t])
    BY Counts
  <1>5. PICK d \in Nat : d = Done(t)
    BY Counts
  <1>0. n \in 1 .. m /\ n \in Nat
    BY <1>3
  <1>6. /\ buffer'[t] = buffer[t] \o a /\ stream'[t] = z
        /\ pc' = IF EndsLine(a) THEN [pc EXCEPT ![t] = "write"] ELSE pc
        /\ \A b \in Clients \ {t} : buffer'[b] = buffer[b] /\ stream'[b] = stream[b]
    BY <1>2 DEF Collect, CalmNow, TypedInv, Spoken
  <1>7. /\ \A k \in 1 .. l : buffer[t][k] = Part(t, d + k)
        /\ \A k \in 1 .. m : stream[t][k] = Part(t, d + l + k)
        /\ d % 2 = 0 /\ i[t] = 0
    BY <1>1, <1>3, <1>4, <1>5 DEF CalmNow, PartsFollow
  <1>8. stream[t] \in Seq(S) /\ buffer[t] \in Seq(S)
    BY Counts
  <1> HIDE DEF S, a, z
  <1>9. a \in Seq(S) /\ Len(a) = n /\ \A k \in 1 .. n : a[k] = Part(t, d + l + k)
    <2>1. 1 \in Int /\ n \in Int /\ \A k \in 1 .. n : stream[t][k] \in S
      BY <1>3, <1>8, <1>0
    <2>2. /\ a \in Seq(S) /\ Len(a) = IF 1 <= n THEN n - 1 + 1 ELSE 0
          /\ \A k \in 1 .. n - 1 + 1 : a[k] = stream[t][1 + k - 1]
      BY <2>1, SubSeqProperties DEF a
    <2>3. \A k \in 1 .. n : k \in 1 .. m /\ 1 + k - 1 = k /\ k \in 1 .. n - 1 + 1
      BY <1>0
    <2> QED
      BY <1>0, <1>7, <2>2, <2>3
  <1>10. Len(z) = m - n /\ \A k \in 1 .. m - n : z[k] = Part(t, d + l + n + k)
    <2>1. n + 1 \in Int /\ m \in Int /\ \A k \in n + 1 .. m : stream[t][k] \in S
      BY <1>3, <1>8, <1>0
    <2>2. /\ Len(z) = IF n + 1 <= m THEN m - (n + 1) + 1 ELSE 0
          /\ \A k \in 1 .. m - (n + 1) + 1 : z[k] = stream[t][n + 1 + k - 1]
      BY <1>3, <2>1, SubSeqProperties DEF z
    <2>3. \A k \in 1 .. m - n : n + k \in 1 .. m /\ n + 1 + k - 1 = n + k /\ k \in 1 .. m - (n + 1) + 1
                             /\ d + l + (n + k) = d + l + n + k
      BY <1>0
    <2> QED
      BY <1>0, <1>7, <2>2, <2>3
  <1>11. Len(buffer'[t]) = l + n /\ \A k \in 1 .. l + n : buffer'[t][k] = Part(t, d + k)
    <2>1. /\ Len(buffer'[t]) = l + n
          /\ \A k \in 1 .. l + n : buffer'[t][k] = IF k <= l THEN buffer[t][k] ELSE a[k - l]
      <3>1. /\ Len(buffer[t] \o a) = Len(buffer[t]) + Len(a)
            /\ \A k \in 1 .. Len(buffer[t]) + Len(a) :
                  (buffer[t] \o a)[k] = IF k <= Len(buffer[t]) THEN buffer[t][k] ELSE a[k - Len(buffer[t])]
        BY <1>8, <1>9, ConcatProperties
      <3> QED
        BY <1>4, <1>6, <1>9, <3>1
    <2>2. ASSUME NEW k \in 1 .. l + n PROVE buffer'[t][k] = Part(t, d + k)
      <3>1. CASE k <= l
        BY <1>7, <2>1, <3>1
      <3>2. CASE k > l
        <4>1. k - l \in 1 .. n /\ d + l + (k - l) = d + k
          BY <3>2
        <4> QED
          BY <1>9, <2>1, <3>2, <4>1
      <3> QED
        BY <3>1, <3>2
    <2> QED
      BY <2>1, <2>2
  <1>12. \A b \in Clients : Done(b)' = Done(b)
    <2>1. 2 * sent[t] - (l + n) - (m - n) = 2 * sent[t] - l - m
      BY <1>0, Counts
    <2>2. Done(t)' = Done(t)
      BY <1>1, <1>3, <1>4, <1>6, <1>10, <1>11, <2>1 DEF Done
    <2>3. \A b \in Clients \ {t} : Done(b)' = Done(b)
      BY <1>1, <1>6 DEF Done
    <2> QED
      BY <2>2, <2>3
  <1>13. pc'[t] = "write" => (l + n) % 2 = 0
    <2> SUFFICES ASSUME pc'[t] = "write" PROVE (l + n) % 2 = 0
      OBVIOUS
    <2>1. EndsLine(a)
      BY <1>1, <1>6
    <2>2. a[n][2] = 2 /\ a[n] = Part(t, d + l + n)
      BY <1>0, <1>9, <2>1 DEF EndsLine, Last
    <2>3. PICK k \in Nat : k = l + n
      OBVIOUS
    <2>4. PICK e \in Nat : e = d + k
      OBVIOUS
    <2>5. e = d + l + n
      BY <2>3, <2>4
    <2>6. e % 2 = 0
      <3>1. Part(t, e)[2] = 2
        BY <2>2, <2>5
      <3> QED
        BY <3>1, PartIs
    <2> QED
      BY <1>7, <2>3, <2>4, <2>6, Parity
  <1>14. PartsFollow'
    <2>1. ASSUME NEW b \in Clients
          PROVE  /\ Done(b) >= 0 /\ Done(b) % 2 = 0
                 /\ \A k \in 1 .. Len(buffer'[b]) : buffer'[b][k] = Part(b, Done(b) + k)
                 /\ \A k \in 1 .. Len(stream'[b]) : stream'[b][k] = Part(b, Done(b) + Len(buffer'[b]) + k)
                 /\ pc'[b] = "write" => Len(buffer'[b]) % 2 = 0
                 /\ pc'[b] # "write" => i[b] = 0
                 /\ pc'[b] = "none" => heard[b] = << >>
      <3>1. CASE b = t
        <4>1. \A k \in 1 .. m - n : d + (l + n) + k = d + l + n + k
          BY <1>0
        <4>2. \A k \in 1 .. Len(stream'[t]) : stream'[t][k] = Part(t, Done(t) + Len(buffer'[t]) + k)
          BY <1>5, <1>6, <1>10, <1>11, <4>1
        <4>3. Done(t) >= 0 /\ Done(t) % 2 = 0
          BY DEF CalmNow, PartsFollow
        <4>4. \A k \in 1 .. Len(buffer'[t]) : buffer'[t][k] = Part(t, Done(t) + k)
          BY <1>5, <1>11
        <4>5. pc'[t] = "write" => Len(buffer'[t]) % 2 = 0
          BY <1>11, <1>13
        <4>6. pc'[t] # "none"
          BY <1>1, <1>6 DEF CalmNow, TypedInv, ListInv, OneThreadEach
        <4> QED
          BY <1>7, <3>1, <4>2, <4>3, <4>4, <4>5, <4>6
      <3>2. CASE b # t
        <4>1. pc'[b] = pc[b]
          BY <1>6, <3>2 DEF CalmNow, TypedInv, ListInv, OneThreadEach
        <4> QED
          BY <1>6, <3>2, <4>1 DEF CalmNow, PartsFollow
      <3> QED
        BY <3>1, <3>2
    <2> QED
      BY <1>1, <1>12, <2>1 DEF PartsFollow
  <1>15. BufferIsNew'
    <2>1. ASSUME NEW b \in Clients, NEW h \in Clients
          PROVE  UpTo(heard[h], b, Done(b) + Len(buffer'[b]))
      <3>1. UpTo(heard[h], b, Done(b) + Len(buffer[b]))
        BY DEF CalmNow, BufferIsNew
      <3>2. CASE b = t
        <4>1. heard[h] \in Seq(Lines \X {1, 2}) /\ d + l \in Int /\ d + (l + n) \in Int /\ d + l <= d + (l + n)
          BY <1>0, Counts
        <4>2. UpTo(heard[h], t, d + l)
          BY <1>4, <1>5, <3>1, <3>2
        <4>3. UpTo(heard[h], t, d + (l + n))
          BY <4>1, <4>2, UpToMore
        <4> QED
          BY <1>5, <1>11, <3>2, <4>3
      <3>3. CASE b # t
        BY <1>6, <3>1, <3>3
      <3> QED
        BY <3>2, <3>3
    <2>2. ASSUME NEW b \in Clients, NEW h \in Clients, NEW k \in i[b] .. clientsConnected - 1, peer[clients[k]] = h
          PROVE  UpTo(heard[h], b, Done(b))
      BY <2>2 DEF CalmNow, BufferIsNew
    <2> QED
      BY <1>1, <1>12, <2>1, <2>2 DEF BufferIsNew, UpTo
  <1>16. Told'
    BY <1>1 DEF CalmNow, Told, WholeInOrder
  <1> QED
    BY <1>14, <1>15, <1>16

(* The thread writes its lines to the next of the list.                     *)
LEMMA WritingKeepsParts ==
  ASSUME CalmNow, NEW t \in Clients, WriteToOne(t)
  PROVE  PartsFollow' /\ BufferIsNew' /\ Told'
  <1> DEFINE S == Lines \X {1, 2}
             h == peer[clients[i[t]]]
             q == heard[h] \o buffer[t]
  <1>1. PICK l \in Nat : l = Len(buffer[t])
    BY Counts
  <1>2. PICK d \in Nat : d = Done(t)
    BY Counts
  <1>3. /\ pc[t] = "write" /\ i' = [i EXCEPT ![t] = @ + 1] /\ i[t] \in 0 .. clientsConnected - 1
        /\ UNCHANGED <<sent, buffer, stream, pc, clients, clientsConnected, peer>>
    BY Counts DEF WriteToOne, server
  <1>4. clients[i[t]] \in DOMAIN peer /\ h \in Clients /\ Served(h)
    BY <1>3 DEF CalmNow, ThreadsInPlace, TypedInv, OpenEnds
  <1>5. heard' = [heard EXCEPT ![h] = @ \o buffer[t]]
    BY <1>4 DEF WriteToOne, Heard, CalmNow, Calm, NobodyLeft
  <1>6. heard'[h] = q /\ \A g \in Clients \ {h} : heard'[g] = heard[g]
    BY <1>4, <1>5 DEF CalmNow, TypedInv, Spoken
  <1>7. i'[t] = i[t] + 1 /\ \A c \in Clients \ {t} : i'[c] = i[c]
    BY <1>3 DEF CalmNow, TypedInv, Spoken
  <1>8. /\ d % 2 = 0 /\ l % 2 = 0 /\ \A k \in 1 .. l : buffer[t][k] = Part(t, d + k)
        /\ UpTo(heard[h], t, d)
    <2>1. d % 2 = 0 /\ l % 2 = 0 /\ \A k \in 1 .. l : buffer[t][k] = Part(t, d + k)
      BY <1>1, <1>2, <1>3 DEF CalmNow, PartsFollow
    <2>2. i[t] \in i[t] .. clientsConnected - 1
      BY <1>3, Counts
    <2>3. UpTo(heard[h], t, Done(t))
      BY <1>4, <2>2 DEF CalmNow, BufferIsNew
    <2> QED
      BY <1>2, <2>1, <2>3
  <1>9. buffer[t] \in Seq(Lines \X {1, 2}) /\ heard[h] \in Seq(Lines \X {1, 2})
    BY <1>4, Counts
  <1>10. \A c \in Clients : Done(c)' = Done(c)
    BY <1>3 DEF Done
  <1> HIDE DEF h, q
  <1>11. WholeInOrder(q)
    <2>1. WholeInOrder(heard[h])
      BY <1>4 DEF CalmNow, Told
    <2> QED
      BY <1>1, <1>8, <1>9, <2>1, LinesFollow DEF q
  <1>12. Told'
    <2>1. \A g \in Clients : WholeInOrder(heard'[g])
      BY <1>6, <1>11 DEF CalmNow, Told
    <2> QED
      BY <2>1 DEF Told, WholeInOrder
  <1>13. (d + l) % 2 = 0
    <2>1. PICK e \in Nat : e = d + l
      OBVIOUS
    <2>2. e % 2 \in {0, 1} /\ (e % 2 = 1 <=> l % 2 = 1)
      BY <1>8, <2>1, Parity
    <2> QED
      BY <1>8, <2>1, <2>2
  <1>14. ASSUME NEW c \in Clients, NEW k \in Int, UpTo(heard[h], c, k), c = t => d + l <= k
         PROVE  UpTo(q, c, k)
    BY <1>1, <1>8, <1>9, <1>13, <1>14, UpToFollow DEF q
  <1>15. PartsFollow'
    <2>1. pc[h] # "none"
      BY <1>4 DEF Served
    <2>2. ASSUME NEW c \in Clients
          PROVE  (pc[c] # "write" => i'[c] = 0) /\ (pc[c] = "none" => heard'[c] = << >>)
      BY <1>3, <1>6, <1>7, <2>1 DEF CalmNow, PartsFollow
    <2> QED
      BY <1>3, <1>10, <2>2 DEF CalmNow, PartsFollow
  <1>16. BufferIsNew'
    <2>1. ASSUME NEW c \in Clients, NEW g \in Clients
          PROVE  UpTo(heard'[g], c, Done(c) + Len(buffer[c]))
      <3>1. UpTo(heard[g], c, Done(c) + Len(buffer[c]))
        BY DEF CalmNow, BufferIsNew
      <3>2. CASE g = h
        <4>1. PICK k \in Int : k = Done(c) + Len(buffer[c])
          <5>1. Done(c) \in Int /\ Len(buffer[c]) \in Int
            BY Counts
          <5> QED
            BY <5>1
        <4>2. c = t => d + l <= k
          BY <1>1, <1>2, <4>1
        <4> QED
          BY <1>6, <1>14, <3>1, <3>2, <4>1, <4>2
      <3>3. CASE g # h
        BY <1>6, <3>1, <3>3
      <3> QED
        BY <3>2, <3>3
    <2>2. ASSUME NEW c \in Clients, NEW g \in Clients, NEW k \in i'[c] .. clientsConnected - 1, peer[clients[k]] = g
          PROVE  UpTo(heard'[g], c, Done(c))
      <3>1. i[c] \in Nat /\ i[t] \in Nat /\ clientsConnected \in Nat
        BY Counts
      <3>2. k \in i[c] .. clientsConnected - 1 /\ (c = t => k # i[t]) /\ k \in 0 .. clientsConnected - 1
        BY <1>7, <3>1
      <3>3. UpTo(heard[g], c, Done(c))
        BY <2>2, <3>2 DEF CalmNow, BufferIsNew
      <3>4. CASE g = h
        <4>1. clients[k] = clients[i[t]]
          BY <1>3, <1>4, <2>2, <3>2, <3>4 DEF CalmNow, ThreadsInPlace, TypedInv, OpenEnds, h
        <4>2. c # t
          BY <1>3, <3>2, <4>1 DEF CalmNow, ThreadsInPlace
        <4>3. PICK e \in Int : e = Done(c)
          BY Counts
        <4> QED
          BY <1>6, <1>14, <3>3, <3>4, <4>2, <4>3
      <3>5. CASE g # h
        BY <1>6, <3>3, <3>5
      <3> QED
        BY <3>4, <3>5
    <2> QED
      BY <1>3, <1>10, <2>1, <2>2 DEF BufferIsNew, UpTo
  <1> QED
    BY <1>12, <1>15, <1>16

(* It has written them to everybody.                                        *)
LEMMA WroteKeepsParts ==
  ASSUME CalmNow, NEW t \in Clients, WroteToAll(t)
  PROVE  PartsFollow' /\ BufferIsNew' /\ Told'
  <1>1. PICK l \in Nat : l = Len(buffer[t])
    BY Counts
  <1>2. PICK d \in Nat : d = Done(t)
    BY Counts
  <1>3. /\ pc[t] = "write" /\ pc' = [pc EXCEPT ![t] = "read"]
        /\ i' = [i EXCEPT ![t] = 0] /\ buffer' = [buffer EXCEPT ![t] = << >>]
        /\ UNCHANGED <<sent, stream, heard, clients, clientsConnected, peer>>
        /\ i[t] >= clientsConnected
    BY DEF WroteToAll, server, people
  <1>4. pc'[t] = "read" /\ i'[t] = 0 /\ buffer'[t] = << >> /\ Len(buffer'[t]) = 0
    BY <1>3 DEF CalmNow, TypedInv, ListInv, OneThreadEach, Spoken
  <1>5. \A c \in Clients \ {t} : pc'[c] = pc[c] /\ i'[c] = i[c] /\ buffer'[c] = buffer[c]
    BY <1>3 DEF CalmNow, TypedInv, ListInv, OneThreadEach, Spoken
  <1>6. d % 2 = 0 /\ l % 2 = 0 /\ \A k \in 1 .. Len(stream[t]) : stream[t][k] = Part(t, d + l + k)
    BY <1>1, <1>2, <1>3 DEF CalmNow, PartsFollow
  <1>7. Done(t)' = d + l /\ \A c \in Clients \ {t} : Done(c)' = Done(c)
    <2>1. Done(t)' = 2 * sent[t] - 0 - Len(stream[t]) /\ d = 2 * sent[t] - l - Len(stream[t])
      BY <1>1, <1>2, <1>3, <1>4 DEF Done
    <2>2. sent[t] \in Nat /\ Len(stream[t]) \in Nat
      BY Counts
    <2>3. Done(t)' = d + l
      BY <2>1, <2>2
    <2> QED
      BY <1>3, <1>5, <2>3 DEF Done
  <1>8. (d + l) % 2 = 0
    <2>1. PICK e \in Nat : e = d + l
      OBVIOUS
    <2>2. e % 2 \in {0, 1} /\ (e % 2 = 1 <=> l % 2 = 1)
      BY <1>6, <2>1, Parity
    <2> QED
      BY <1>6, <2>1, <2>2
  <1>9. PartsFollow'
    <2>1. ASSUME NEW c \in Clients
          PROVE  /\ Done(c)' >= 0 /\ Done(c)' % 2 = 0
                 /\ \A k \in 1 .. Len(buffer'[c]) : buffer'[c][k] = Part(c, Done(c)' + k)
                 /\ \A k \in 1 .. Len(stream[c]) : stream[c][k] = Part(c, Done(c)' + Len(buffer'[c]) + k)
                 /\ pc'[c] = "write" => Len(buffer'[c]) % 2 = 0
                 /\ pc'[c] # "write" => i'[c] = 0
                 /\ pc'[c] = "none" => heard[c] = << >>
      <3>1. CASE c = t
        <4>1. Done(t)' >= 0 /\ Done(t)' % 2 = 0
          BY <1>7, <1>8
        <4>2. \A k \in 1 .. Len(stream[t]) : stream[t][k] = Part(t, Done(t)' + Len(buffer'[t]) + k)
          BY <1>4, <1>6, <1>7
        <4>3. \A k \in 1 .. Len(buffer'[t]) : buffer'[t][k] = Part(t, Done(t)' + k)
          BY <1>4
        <4> QED
          BY <1>4, <3>1, <4>1, <4>2, <4>3
      <3>2. CASE c # t
        <4>1. pc'[c] = pc[c] /\ i'[c] = i[c] /\ buffer'[c] = buffer[c] /\ Done(c)' = Done(c)
          BY <1>5, <1>7, <3>2
        <4>2. /\ Done(c) >= 0 /\ Done(c) % 2 = 0
              /\ \A k \in 1 .. Len(buffer[c]) : buffer[c][k] = Part(c, Done(c) + k)
              /\ \A k \in 1 .. Len(stream[c]) : stream[c][k] = Part(c, Done(c) + Len(buffer[c]) + k)
              /\ pc[c] = "write" => Len(buffer[c]) % 2 = 0
              /\ pc[c] # "write" => i[c] = 0
              /\ pc[c] = "none" => heard[c] = << >>
          BY DEF CalmNow, PartsFollow
        <4> QED
          BY <4>1, <4>2
      <3> QED
        BY <3>1, <3>2
    <2> QED
      BY <1>3, <2>1 DEF PartsFollow
  <1>10. BufferIsNew'
    <2>1. ASSUME NEW c \in Clients, NEW h \in Clients
          PROVE  /\ UpTo(heard[h], c, Done(c)' + Len(buffer'[c]))
                 /\ \A k \in i'[c] .. clientsConnected - 1 : peer[clients[k]] = h => UpTo(heard[h], c, Done(c)')
      <3>1. UpTo(heard[h], c, Done(c) + Len(buffer[c]))
        BY DEF CalmNow, BufferIsNew
      <3>2. CASE c = t
        <4>1. UpTo(heard[h], t, d + l) /\ d + l + 0 = d + l
          BY <1>1, <1>2, <3>1, <3>2
        <4> QED
          BY <1>4, <1>7, <3>2, <4>1
      <3>3. CASE c # t
        BY <1>5, <1>7, <3>1, <3>3 DEF CalmNow, BufferIsNew
      <3> QED
        BY <3>2, <3>3
    <2> QED
      BY <1>3, <2>1 DEF BufferIsNew, UpTo
  <1>11. Told'
    BY <1>3 DEF CalmNow, Told, WholeInOrder
  <1> QED
    BY <1>9, <1>10, <1>11

-----------------------------------------------------------------------------
LinesInv == TypedInv /\ CalmInv

LEMMA StepKeepsLines == LinesInv /\ [Next]_vars => LinesInv'
  <1> SUFFICES ASSUME LinesInv, [Next]_vars PROVE LinesInv'
    OBVIOUS
  <1>1. TypedInv /\ TypedInv'
    BY StepKeepsTyped DEF LinesInv
  <1>2. SUFFICES ASSUME Calm' PROVE (ThreadsInPlace /\ PartsFollow /\ BufferIsNew /\ Told)'
    BY <1>1 DEF LinesInv, CalmInv
  <1>3. CalmNow
    BY <1>1, <1>2, StepWasCalm DEF LinesInv, CalmInv, CalmNow
  <1>4. ThreadsInPlace'
    BY <1>2, <1>3, StepKeepsPlaces
  <1>5. PartsFollow' /\ BufferIsNew' /\ Told'
    <2>1. CASE Admit \/ UNCHANGED vars
      BY <1>3, <2>1, AddClientKeepsParts, MainKeepsParts, QuietKeepsParts DEF Admit
    <2>2. ASSUME NEW c \in Clients, accept(c) \/ write_to_server(c) \/ close_client(c)
          PROVE  PartsFollow' /\ BufferIsNew' /\ Told'
      BY <1>3, <2>2, MainKeepsParts, SayingKeepsParts, QuietKeepsParts
    <2>3. ASSUME NEW t \in Clients, processClient(t)
          PROVE  PartsFollow' /\ BufferIsNew' /\ Told'
      BY <1>3, <2>3, NobodyEnds, QuietKeepsParts, ReadKeepsParts, WritingKeepsParts, WroteKeepsParts
         DEF processClient
    <2> QED
      BY <2>1, <2>2, <2>3 DEF Next
  <1> QED
    BY <1>4, <1>5

LEMMA InitLines == Init => LinesInv
  <1> SUFFICES ASSUME Init PROVE LinesInv
    OBVIOUS
  <1> USE DEF Init
  <1>1. ThreadsInPlace
    <2>1. 0 .. clientsConnected - 1 = {}
      OBVIOUS
    <2> QED
      BY <2>1 DEF ThreadsInPlace
  <1>2. \A c \in Clients : Done(c) = 0 /\ heard[c] = << >> /\ buffer[c] = << >> /\ stream[c] = << >>
    BY DEF Done
  <1>3. 0 >= 0 /\ 0 % 2 = 0
    OBVIOUS
  <1>4. PartsFollow /\ BufferIsNew /\ Told
    BY <1>2, <1>3 DEF PartsFollow, BufferIsNew, Told, UpTo, WholeInOrder
  <1> QED
    BY <1>1, <1>4, InitTyped DEF LinesInv, CalmInv

(* However the reads cut the lines, however many clients talk at once and      *)
(* however the threads' writes mix, everybody on the list receives whole lines, *)
(* and those of one sender in the order sent and once only, until somebody      *)
(* leaves or a thread reads another's descriptor (server.c:24 and :40).         *)
THEOREM LinesStayWhole == Spec => []LinesWhole
  <1>1. LinesInv => LinesWhole
    BY TypedIsTypeOK DEF LinesInv, CalmInv, Calm, Told, LinesWhole
  <1> QED
    BY <1>1, InitLines, StepKeepsLines, PTL DEF Spec
=============================================================================
