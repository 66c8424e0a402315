------------------------------- MODULE Chatroom -------------------------------
(***************************************************************************)
(* The chat server of Lab/Chatroom/server.c: main accepts clients and      *)
(* starts a thread each, which reads lines and writes them to everybody on *)
(* the list clients. The list is changed under mutex and read without it.  *)
(*                                                                         *)
(* A line travels as two parts, of which the second ends with \n: a read   *)
(* returns any number of parts that have arrived.                          *)
(***************************************************************************)
EXTENDS Integers, SequencesExt, FiniteSetsExt

CONSTANTS Clients,       \* each of them connects at most once
          MAX_CLIENTS,
          MaxLines,      \* bound: the clients together send at most this many lines
          MaxDepartures, \* bound: at most this many clients leave
          NULL

ASSUME ClientsAssumption    == IsFiniteSet(Clients)
ASSUME MaxClientsAssumption == MAX_CLIENTS \in Nat \ {0}
ASSUME MaxLinesAssumption   == MaxLines \in Nat

VARIABLES
    main, client_fd, guest,     \* where main is, and its local variable; whom
                                \* it accepted last
    clients, clientsConnected,
    peer,                       \* the open descriptors, each with its client
    pc, fd, buffer, i,          \* the thread of each client, and its locals
    state,                      \* a client is "away", "in" or "left"
    sent, stream,               \* how many lines it sent; the parts not yet read
    heard,                      \* the lines it received
    owed,                       \* history: who is to receive which lines
    fate,                       \* what ended the server, NULL while it runs
    raced                       \* history: a thread was given another's client

server == <<main, client_fd, guest, clients, clientsConnected, peer>>
thread == <<pc, fd, buffer, i>>
people == <<state, sent, stream, heard, owed>>
vars == <<server, thread, people, fate, raced>>

Lines == Clients \X (1 .. MaxLines)
Said == {line \in Lines : line[2] <= sent[line[1]]}
Parts(line) == <<<<line, 1>>, <<line, 2>>>>
EndsLine(parts) == Last(parts)[2] = 2

Running == fate = NULL
Served(c) == pc[c] \notin {"none", "gone"}

Init ==
    /\ main = "accept" /\ client_fd = NULL /\ guest = NULL
    /\ clients = [k \in 0 .. MAX_CLIENTS - 1 |-> NULL] /\ clientsConnected = 0
    /\ peer = << >>
    /\ pc = [c \in Clients |-> "none"] /\ fd = [c \in Clients |-> NULL]
    /\ buffer = [c \in Clients |-> << >>] /\ i = [c \in Clients |-> 0]
    /\ state = [c \in Clients |-> "away"] /\ sent = [c \in Clients |-> 0]
    /\ stream = [c \in Clients |-> << >>] /\ heard = [c \in Clients |-> << >>]
    /\ owed = {} /\ fate = NULL /\ raced = FALSE

-----------------------------------------------------------------------------
(* The clients: chatroom.c, client.c and utils.c, or anyone else           *)

write_to_server(c) ==
    /\ c \in Range(peer) /\ state[c] = "in" /\ Cardinality(Said) < MaxLines /\ Running
    /\ sent' = [sent EXCEPT ![c] = @ + 1]
    /\ stream' = [stream EXCEPT ![c] = @ \o Parts(<<c, sent[c] + 1>>)]
    /\ owed' = IF Served(c) THEN owed \cup {h \in Clients : Served(h)} \X {<<c, sent[c] + 1>>}
                            ELSE owed
    /\ UNCHANGED <<server, thread, state, heard, fate, raced>>

close_client(c) ==
    /\ c \in Range(peer) /\ state[c] = "in" /\ Running
    /\ Quantify(Clients, LAMBDA d : state[d] = "left") < MaxDepartures
    /\ state' = [state EXCEPT ![c] = "left"]
    /\ UNCHANGED <<server, thread, sent, stream, heard, owed, fate, raced>>

-----------------------------------------------------------------------------
(* main *)

LowestFree == Min((1 .. Cardinality(Clients)) \ DOMAIN peer)

accept(c) ==
    /\ main = "accept" /\ Running
    /\ state[c] = "away"
    /\ client_fd' = LowestFree /\ guest' = c
    /\ peer' = [f \in DOMAIN peer \cup {LowestFree} |-> IF f = LowestFree THEN c ELSE peer[f]]
    /\ state' = [state EXCEPT ![c] = "in"]
    /\ main' = "check"
    /\ UNCHANGED <<clients, clientsConnected, thread, sent, stream, heard, owed, fate, raced>>

\* The server's end of a descriptor is closed.
Close(f) == peer' = [g \in DOMAIN peer \ {f} |-> peer[g]]

\* Variant: room for one more than the array has.
IsFull_OneMore == clientsConnected > MAX_CLIENTS

IsFull == clientsConnected >= MAX_CLIENTS

Reject ==
    /\ main = "check" /\ Running
    /\ IsFull
    /\ Close(client_fd)
    /\ main' = "accept"
    /\ UNCHANGED <<client_fd, guest, clients, clientsConnected, thread, people, fate, raced>>

\* Past the check, without the mutex.
Accepted ==
    /\ main = "check" /\ Running
    /\ ~IsFull
    /\ main' = "add"
    /\ UNCHANGED <<client_fd, guest, clients, clientsConnected, peer, thread, people, fate, raced>>

\* With the mutex: nobody else changes the list, and whoever reads it does not
\* look at the new entry before it is counted.
AddClient ==
    /\ main = "add" /\ Running
    /\ clients' = [k \in DOMAIN clients \cup {clientsConnected} |->
                     IF k = clientsConnected THEN client_fd ELSE clients[k]]
    /\ clientsConnected' = clientsConnected + 1
    /\ pc' = [pc EXCEPT ![guest] = "start"]
    /\ main' = "accept"
    /\ UNCHANGED <<client_fd, guest, peer, fd, buffer, i, people, fate, raced>>

-----------------------------------------------------------------------------
(* processClient, for the thread t that was started for client t           *)

\* The argument is the address of main's client_fd.
TakeArgument(t) ==
    /\ pc[t] = "start" /\ Running
    /\ fd' = [fd EXCEPT ![t] = client_fd]
    /\ raced' = (raced \/ guest # t)
    /\ pc' = [pc EXCEPT ![t] = "read"]
    /\ UNCHANGED <<server, buffer, i, people, fate>>

\* Variant: one read is taken to be one line.
Collect_OneRead(t, parts) ==
    /\ buffer' = [buffer EXCEPT ![t] = @ \o parts]
    /\ pc' = [pc EXCEPT ![t] = "write"]

\* The bytes go behind those of the reads before, until a line is complete.
Collect(t, parts) ==
    /\ buffer' = [buffer EXCEPT ![t] = @ \o parts]
    /\ pc' = IF EndsLine(parts) THEN [pc EXCEPT ![t] = "write"] ELSE pc

Read(t) ==
    /\ pc[t] = "read" /\ Running
    /\ fd[t] \in DOMAIN peer
    /\ LET c == peer[fd[t]]
       IN  \E n \in 1 .. Len(stream[c]) :
              /\ Collect(t, SubSeq(stream[c], 1, n))
              /\ stream' = [stream EXCEPT ![c] = SubSeq(@, n + 1, Len(@))]
    /\ UNCHANGED <<server, fd, i, state, sent, heard, owed, fate, raced>>

\* read returns 0: the client has closed its end.
ReadEnd(t) ==
    /\ pc[t] = "read" /\ Running
    /\ fd[t] \in DOMAIN peer
    /\ LET c == peer[fd[t]] IN state[c] = "left" /\ stream[c] = << >>
    /\ pc' = [pc EXCEPT ![t] = "close"]
    /\ UNCHANGED <<server, fd, buffer, i, people, fate, raced>>

\* read returns -1, because the descriptor is closed or the client that left
\* had not read everything: len goes back by one and buffer[len - 1] is, on the
\* first round or a later one, out of bounds.
ReadFails(t) ==
    /\ pc[t] = "read" /\ Running
    /\ fd[t] \in DOMAIN peer => state[peer[fd[t]]] = "left"
    /\ fate' = "undefined"
    /\ UNCHANGED <<server, thread, people, raced>>

Heard(c, parts) ==
    /\ heard' = [heard EXCEPT ![c] = @ \o parts]
    /\ owed' = owed \ ({c} \X {part[1] : part \in Range(parts)})

\* One turn of the loop of write_to_clients: nothing happens on a descriptor
\* that is closed; on one whose client has left the write is lost or, if the
\* client has answered an earlier one with a reset, ends the server by SIGPIPE.
WriteToOne(t) ==
    /\ pc[t] = "write" /\ Running
    /\ i[t] < clientsConnected
    /\ LET f == clients[i[t]]
       IN  IF f \notin DOMAIN peer THEN UNCHANGED <<heard, owed, fate>>
           ELSE IF state[peer[f]] = "left"
                THEN UNCHANGED <<heard, owed>> /\ fate' \in {NULL, "SIGPIPE"}
                ELSE Heard(peer[f], buffer[t]) /\ UNCHANGED fate
    /\ i' = [i EXCEPT ![t] = @ + 1]
    /\ UNCHANGED <<server, pc, fd, buffer, state, sent, stream, raced>>

\* Variant: the buffer is not emptied for the next line.
WroteToAll_KeepBuffer(t) ==
    /\ pc[t] = "write" /\ Running
    /\ i[t] >= clientsConnected
    /\ pc' = [pc EXCEPT ![t] = "read"]
    /\ i' = [i EXCEPT ![t] = 0]
    /\ UNCHANGED <<server, fd, buffer, people, fate, raced>>

\* Variant: the last of the list is forgotten.
WroteToAll_OneShort(t) ==
    /\ pc[t] = "write" /\ Running
    /\ i[t] >= clientsConnected - 1
    /\ pc' = [pc EXCEPT ![t] = "read"]
    /\ i' = [i EXCEPT ![t] = 0]
    /\ buffer' = [buffer EXCEPT ![t] = << >>]
    /\ UNCHANGED <<server, fd, people, fate, raced>>

WroteToAll(t) ==
    /\ pc[t] = "write" /\ Running
    /\ i[t] >= clientsConnected
    /\ pc' = [pc EXCEPT ![t] = "read"]
    /\ i' = [i EXCEPT ![t] = 0]
    /\ buffer' = [buffer EXCEPT ![t] = << >>]
    /\ UNCHANGED <<server, fd, people, fate, raced>>

CloseSocket(t) ==
    /\ pc[t] = "close" /\ Running
    /\ Close(fd[t])
    /\ pc' = [pc EXCEPT ![t] = "leave"]
    /\ UNCHANGED <<main, client_fd, guest, clients, clientsConnected, fd, buffer, i, people, fate, raced>>

\* The count is one less; the list is left as it is.
Leave(t) ==
    /\ pc[t] = "leave" /\ Running
    /\ clientsConnected' = clientsConnected - 1
    /\ pc' = [pc EXCEPT ![t] = "gone"] /\ fd' = [fd EXCEPT ![t] = NULL]
    /\ UNCHANGED <<main, client_fd, guest, clients, peer, buffer, i, people, fate, raced>>

processClient(t) ==
    \/ TakeArgument(t)
    \/ Read(t) \/ ReadEnd(t) \/ ReadFails(t)
    \/ WriteToOne(t) \/ WroteToAll(t)
    \/ CloseSocket(t) \/ Leave(t)

Admit == Reject \/ Accepted \/ AddClient

Next ==
    \/ Admit
    \/ \E c \in Clients :
          accept(c) \/ processClient(c) \/ write_to_server(c) \/ close_client(c)

\* main and the threads run; when clients come, talk and go is up to them.
Fairness == WF_vars(Admit) /\ \A t \in Clients : WF_vars(processClient(t))

Spec == Init /\ [][Next]_vars
FairSpec == Spec /\ Fairness

-----------------------------------------------------------------------------
(* Properties *)

Descriptors == 1 .. Cardinality(Clients)
NobodyLeft == \A c \in Clients : state[c] # "left"

\* clients is never written past its end, although main looks at clientsConnected
\* without the mutex and long before it uses it, and clientsConnected is the
\* number of the threads that run (server.c:119).
ListInBounds ==
    /\ DOMAIN clients = 0 .. MAX_CLIENTS - 1
    /\ clientsConnected = Cardinality({c \in Clients : Served(c)})
    /\ clientsConnected <= MAX_CLIENTS

TypeOK ==
    /\ main \in {"accept", "check", "add"} /\ guest \in Clients \cup {NULL}
    /\ client_fd \in Descriptors \cup {NULL}
    /\ Range(clients) \subseteq Descriptors \cup {NULL} /\ clientsConnected \in Nat
    /\ DOMAIN peer \subseteq Descriptors /\ Range(peer) \subseteq Clients
    /\ pc \in [Clients -> {"none", "start", "read", "write", "close", "leave", "gone"}]
    /\ fd \in [Clients -> Descriptors \cup {NULL}]
    /\ i \in [Clients -> 0 .. MAX_CLIENTS]
    /\ state \in [Clients -> {"away", "in", "left"}]
    /\ sent \in [Clients -> 0 .. MaxLines]
    /\ \A c \in Clients :
          Range(buffer[c]) \cup Range(stream[c]) \cup Range(heard[c]) \subseteq Lines \X {1, 2}
    /\ owed \subseteq Clients \X Lines
    /\ fate \in {NULL, "undefined", "SIGPIPE"} /\ raced \in BOOLEAN

\* Whole lines, and those of one sender in the order sent and once only.
WholeInOrder(parts) ==
    /\ \A k \in 1 .. Len(parts) :
          IF k % 2 = 1 THEN parts[k][2] = 1 /\ k < Len(parts)
                       ELSE parts[k] = <<parts[k - 1][1], 2>>
    /\ \A j, k \in 1 .. Len(parts) :
          LET a == parts[j]
              b == parts[k]
          IN  j < k /\ a[2] = b[2] /\ a[1][1] = b[1][1] => a[1][2] < b[1][2]

\* However the reads cut the lines and however the threads' writes mix, as long
\* as nobody has left everybody receives whole lines, and those of one sender in
\* the order sent and once only.
LinesWhole ==
    /\ TypeOK
    /\ NobodyLeft /\ ~raced => \A h \in Clients : WholeInOrder(heard[h])

\* What a client says once it has a thread is received by everybody who has one
\* then, the client itself included, unless somebody leaves or a thread was given
\* the wrong client. (The clients say finitely much.)
LinesHeard == []<>(owed = {} \/ ~NobodyLeft \/ raced)

\* Lab/Chatroom/README.md: the server receives messages "and broadcast[s] these
\* messages to each of the clients": when a thread has written its buffer to
\* everybody, each client that has a thread and has not left has received it.
BroadcastReachesAll ==
    [][\A t, h \in Clients :
          WroteToAll(t) /\ Served(h) /\ state[h] = "in" /\ ~raced
              => Range(buffer[t]) \subseteq Range(heard[h])]_vars
=============================================================================
