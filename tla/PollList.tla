------------------------------ MODULE PollList ------------------------------
(***************************************************************************)
(* The two tables behind the main loop of server-unix.c: the array of      *)
(* struct pollfd, which is changed while the loop walks over it, and the   *)
(* array list of clients (arraylist.c).  What the handlers do otherwise is *)
(* in VCServer; here a ready client is served, or it is closed.            *)
(***************************************************************************)
EXTENDS Naturals, Sequences, FiniteSets, Functions

CONSTANTS
  Fds,      \* descriptors of clients, which bound their number
  Sock,     \* the listening socket
  Pipe,     \* the read end of the self-pipe
  Parallel, \* option -j, which sizes the tables
  Gone      \* the descriptor -1 of a removed entry

(* The listening socket, the self-pipe and -1 are no descriptors of        *)
(* clients and differ from each other; descriptors are numbers, of which   *)
(* the kernel hands out the lowest; option -j is positive.                 *)
ASSUME ConstantsAssumption ==
  /\ Sock \notin Fds /\ Pipe \notin Fds /\ Gone \notin Fds
  /\ Sock # Pipe /\ Sock # Gone /\ Pipe # Gone
  /\ Parallel \in Nat \ {0}
ASSUME FdsAssumption == Fds \subseteq Nat

VARIABLES
  poll_list, poll_len,  \* the entries in use, and the size of the array
  clients, capacity,    \* the keys in the list of clients, and its size
  pc, index,            \* where the main loop is, and its index
  ready,                \* history: descriptors the last poll() reported
  visited               \* history: descriptors handled since

pollVars == <<poll_list, poll_len, clients, capacity, pc, index, ready, visited>>

poll_num == Len(poll_list)
Entry(fd, out) == [fd |-> fd, out |-> out, revents |-> FALSE]
Indices(fd) == {k \in 1..poll_num : poll_list[k].fd = fd}

(* server_init_listening, setup_child_pipe *)
PollListInit ==
  /\ poll_list = <<Entry(Sock, FALSE), Entry(Pipe, FALSE)>> /\ poll_len = 2 + Parallel
  /\ clients = <<>> /\ capacity = Parallel
  /\ pc = "clean" /\ index = 1 /\ ready = {} /\ visited = {}

(* poll_list_clean: the last entry fills the place of a removed one.       *)
PollListClean ==
  /\ pc = "clean" /\ index <= poll_num
  /\ IF poll_list[index].fd = Gone
       THEN /\ poll_list' = SubSeq([poll_list EXCEPT ![index] = poll_list[poll_num]], 1, poll_num - 1)
            /\ UNCHANGED index
       ELSE index' = index + 1 /\ UNCHANGED poll_list
  /\ UNCHANGED <<poll_len, clients, capacity, pc, ready, visited>>

(* poll() reports some of the descriptors.  Fds bounds the connections: a  *)
(* client connects only while one is free.                                 *)
Poll ==
  /\ pc = "clean" /\ index > poll_num
  /\ ready' \in SUBSET {poll_list[k].fd : k \in 1..poll_num} /\ ready' # {}
  /\ Sock \in ready' => Len(clients) < Cardinality(Fds)
  /\ poll_list' = [k \in 1..poll_num |-> [poll_list[k] EXCEPT !.revents = poll_list[k].fd \in ready']]
  /\ pc' = "loop" /\ index' = 1 /\ visited' = {}
  /\ UNCHANGED <<poll_len, clients, capacity>>

(* The for loop; poll_num is read again before every turn.                 *)
Skip ==
  /\ pc = "loop" /\ index <= poll_num /\ ~poll_list[index].revents
  /\ index' = index + 1
  /\ UNCHANGED <<poll_list, poll_len, clients, capacity, pc, ready, visited>>

EndOfLoop ==
  /\ pc = "loop" /\ index > poll_num
  /\ pc' = "clean" /\ index' = 1
  /\ UNCHANGED <<poll_list, poll_len, clients, capacity, ready, visited>>

At(fd) ==
  /\ pc = "loop" /\ index <= poll_num /\ poll_list[index].revents /\ poll_list[index].fd = fd
  /\ index' = index + 1 /\ visited' = visited \cup {fd}
  /\ UNCHANGED <<pc, ready>>

(* queue_write on the entry poll_list_lookup finds, the first one.         *)
QueueWrite(fd) ==
  poll_list' = [k \in 1..poll_num |->
                  IF Indices(fd) # {} /\ k = CHOOSE n \in Indices(fd) : \A o \in Indices(fd) : n <= o
                    THEN [poll_list[k] EXCEPT !.out = TRUE] ELSE poll_list[k]]

(* handle_child_events: a client, if it is still there, is sent an answer. *)
HandleChildEvents ==
  /\ At(Pipe)
  /\ \/ \E fd \in Range(clients) : QueueWrite(fd)
     \/ UNCHANGED poll_list
  /\ UNCHANGED <<poll_len, clients, capacity>>

(* add_to_poll_list *)
AddToPollList(fd) ==
  /\ poll_list' = Append(poll_list, Entry(fd, FALSE))
  /\ poll_len' = IF poll_num = poll_len THEN 2 * poll_len ELSE poll_len

(* server_accept_client: list_append and add_to_poll_list for the lowest   *)
(* descriptor that is free.                                                *)
ServerAcceptClient ==
  /\ At(Sock)
  /\ \E fd \in Fds \ Range(clients) :
       /\ \A g \in Fds \ Range(clients) : fd <= g
       /\ clients' = Append(clients, fd)
       /\ capacity' = IF Len(clients) = capacity THEN 2 * capacity ELSE capacity
       /\ AddToPollList(fd)

(* write_to_client, which clears POLLOUT, or read_on_client, whose         *)
(* requests may be answered at once.                                       *)
Serve(fd) ==
  /\ At(fd) /\ fd \in Range(clients)
  /\ \/ poll_list' = [poll_list EXCEPT ![index].out = FALSE]
     \/ QueueWrite(fd)
  /\ UNCHANGED <<poll_len, clients, capacity>>

(* Mutant: the hole is filled at once. *)
RemoveAndFill(fd) ==
  \E k \in Indices(fd) :
    poll_list' = SubSeq([poll_list EXCEPT ![k] = poll_list[poll_num]], 1, poll_num - 1)

(* poll_list_remove marks the entry, poll_list_clean removes it later.     *)
PollListRemove(fd) ==
  \E k \in Indices(fd) :
    /\ \A n \in Indices(fd) : k <= n
    /\ poll_list' = [poll_list EXCEPT ![k].fd = Gone, ![k].revents = FALSE]

(* Mutant: the last key is dropped, whichever was asked for. *)
ListRemoveLast(fd) == clients' = SubSeq(clients, 1, Len(clients) - 1)

(* list_remove: the last key takes the place of the removed one.           *)
ListRemove(fd) ==
  \E k \in 1..Len(clients) :
    /\ clients[k] = fd
    /\ clients' = SubSeq([clients EXCEPT ![k] = clients[Len(clients)]], 1, Len(clients) - 1)

(* close_client, after POLLERR or at the end of the input.                 *)
CloseClient(fd) ==
  /\ At(fd) /\ fd \in Range(clients)
  /\ ListRemove(fd) /\ PollListRemove(fd)
  /\ UNCHANGED <<poll_len, capacity>>

PollListNext ==
  \/ PollListClean \/ Poll \/ Skip \/ EndOfLoop
  \/ HandleChildEvents \/ ServerAcceptClient
  \/ \E fd \in Fds : Serve(fd) \/ CloseClient(fd)

PollListSpec == PollListInit /\ [][PollListNext]_pollVars

-----------------------------------------------------------------------------
(* Every client has exactly one entry at all times, also while the loop    *)
(* runs: poll_list_lookup finds the entry it means, and after close(fd)    *)
(* no entry is left that a later client with the same number could meet.   *)
(* Both arrays have room for what is in them.  When poll() is called no    *)
(* removed entry is left, and the listening socket and the self-pipe are   *)
(* still the first two entries: they are handled before any client.        *)
OneEntryPerClient ==
  /\ \A fd \in Fds : Cardinality(Indices(fd)) = IF fd \in Range(clients) THEN 1 ELSE 0
  /\ poll_num <= poll_len /\ Len(clients) <= capacity
  /\ pc = "clean" /\ index > poll_num => Indices(Gone) = {}
  /\ poll_list[1].fd = Sock /\ poll_list[2].fd = Pipe

(* One turn of the loop handles every descriptor poll() reported, although *)
(* entries are added and removed on the way.                               *)
NobodySkipped == pc = "loop" /\ index > poll_num => visited = ready
=============================================================================
