-------------------------------- MODULE Wire --------------------------------
(***************************************************************************)
(* One client of why3server and the bytes between them: the client's       *)
(* blocking send_request_string and its read_lines (prove_client.ml), two  *)
(* bounded socket buffers, and the server's read and write buffers         *)
(* (readbuf.c, writebuf.c) as handle_msg, queue_write, read_on_client and  *)
(* write_to_client use them.  What a request makes the server do is not    *)
(* looked at here: every request is answered by one line.                  *)
(***************************************************************************)
EXTENDS Naturals, Sequences, FiniteSets, SequencesExt

CONSTANTS
  ReqLen, AnsLen, \* length in bytes, newline included, of the n-th request and answer
  ReadOnce,       \* READ_ONCE of the server
  RecvOnce,       \* size of the buffer of read_from_client
  SockRoom,       \* bytes a socket buffer holds, in each direction
  PolloutRoom,    \* free bytes for which poll() reports POLLOUT
  MemcpyOrders    \* how memcpy may copy: "forward", "backward"

MaxReq == Len(ReqLen)

ASSUME LengthsAssumption ==
  /\ DOMAIN AnsLen = DOMAIN ReqLen
  /\ \A n \in 1..MaxReq : ReqLen[n] \in Nat \ {0, 1} /\ AnsLen[n] \in 2..PolloutRoom
ASSUME SizesAssumption ==
  {ReadOnce, RecvOnce, SockRoom, PolloutRoom} \subseteq Nat \ {0} /\ PolloutRoom <= SockRoom
ASSUME MemcpyAssumption == MemcpyOrders \subseteq {"forward", "backward"}

VARIABLES
  nsent,     \* requests the client has started to send
  out,       \* bytes send_request_string has still to write
  c2s,       \* bytes on the way to the server
  readbuf,   \* the server's read buffer of the client
  handled,   \* history: lines handle_msg passed to parse_request
  writebuf,  \* the server's write buffer of the client
  pollout,   \* the poll entry asks for POLLOUT
  s2c,       \* bytes on the way to the client
  recv_buf,  \* bytes of an incomplete line on the client's side
  received   \* history: lines read_lines returned

wireVars == <<nsent, out, c2s, readbuf, handled, writebuf, pollout, s2c, recv_buf, received>>

(* A byte is known by the line it belongs to and its place in it; the last *)
(* byte of a line, and no other, is the newline.                           *)
Line(n, len)  == [k \in 1..len |-> [n |-> n, k |-> k, nl |-> k = len]]
Body(line)    == SubSeq(line, 1, Len(line) - 1)
Request(n)    == Line(n, ReqLen[n])
Answer(n)     == Line(n, AnsLen[n])
Junk          == [n |-> 0, k |-> 0, nl |-> FALSE]
Newlines(s)   == {i \in 1..Len(s) : s[i].nl}
LastNewline(s) == IF Newlines(s) = {} THEN 0 ELSE Max(Newlines(s))

(* The complete lines of s, without their newlines.                        *)
Newline(s, i) == CHOOSE p \in Newlines(s) : Cardinality({q \in Newlines(s) : q <= p}) = i
Lines(s) ==
  LET end(i) == IF i = 0 THEN 0 ELSE Newline(s, i)
  IN  [i \in 1..Cardinality(Newlines(s)) |-> SubSeq(s, end(i - 1) + 1, end(i) - 1)]

-----------------------------------------------------------------------------
(* readbuf.c: the bytes in use are the first len ones of data.             *)
InitReadbuf(cap) == [data |-> [i \in 1..cap |-> Junk], len |-> 0, capacity |-> cap]

Resize(b, cap) ==
  [b EXCEPT !.capacity = cap,
            !.data = [i \in 1..cap |-> IF i <= b.capacity THEN b.data[i] ELSE Junk]]

PrepareRead(b, size) ==
  IF b.len + size > b.capacity THEN Resize(b, (b.capacity + size) * 2) ELSE b

(* read() stores s after the bytes in use; have_read.                      *)
HaveRead(b, s) ==
  [b EXCEPT !.len = @ + Len(s),
            !.data = [i \in 1..b.capacity |->
                        IF i > b.len /\ i <= b.len + Len(s) THEN s[i - b.len] ELSE @[i]]]

(* have_taken: memcpy from data + size to data.  The two regions overlap   *)
(* when more than size bytes remain: the result then depends on the order  *)
(* of copying.  A byte copied backward may have been overwritten before.   *)
HaveTaken(b, size, order) ==
  LET rest == b.len - size
      from(i) == IF order = "forward" THEN i + size
                 ELSE i + size * (((rest - i) \div size) + 1)
  IN  [b EXCEPT !.len = rest,
                !.data = [i \in 1..b.capacity |-> IF i <= rest THEN @[from(i)] ELSE @[i]]]

InUse(b) == SubSeq(b.data, 1, b.len)

(* writebuf.c: the line being written, how much of it has been, and the    *)
(* lines queued behind it.  data = <<>> stands for NULL.                   *)
InitWritebuf == [data |-> <<>>, pointer |-> 0, writequeue |-> <<>>]

HasWriteData(b) == b.data # <<>>

PushWriteData(b, line) ==
  IF HasWriteData(b) THEN [b EXCEPT !.writequeue = Append(@, line)]
                     ELSE [b EXCEPT !.data = line, !.pointer = 0]

(* prepare_write, and have_written for n bytes: a partial write only moves *)
(* the pointer, a complete one takes the next line from the queue.         *)
Unwritten(b) == SubSeq(b.data, b.pointer + 1, Len(b.data))

HaveWritten(b, n) ==
  IF b.pointer + n < Len(b.data) THEN [b EXCEPT !.pointer = @ + n]
  ELSE IF b.writequeue # <<>> THEN [data |-> Head(b.writequeue), pointer |-> 0,
                                    writequeue |-> Tail(b.writequeue)]
  ELSE InitWritebuf

-----------------------------------------------------------------------------
WireInit ==
  /\ nsent = 0 /\ out = <<>> /\ c2s = <<>>
  /\ readbuf = InitReadbuf(ReadOnce) /\ handled = <<>>
  /\ writebuf = InitWritebuf /\ pollout = FALSE /\ s2c = <<>>
  /\ recv_buf = <<>> /\ received = <<>>

(* send_request builds the line; send_request_string writes it piece by    *)
(* piece and does not return before all of it is written.                  *)
SendRequest ==
  /\ out = <<>> /\ nsent < MaxReq
  /\ nsent' = nsent + 1 /\ out' = Request(nsent + 1)
  /\ UNCHANGED <<c2s, readbuf, handled, writebuf, pollout, s2c, recv_buf, received>>

SendRequestString ==
  /\ out # <<>>
  /\ \E n \in 1..Len(out) :
       /\ Len(c2s) + n <= SockRoom
       /\ c2s' = c2s \o SubSeq(out, 1, n)
       /\ out' = SubSeq(out, n + 1, Len(out))
  /\ UNCHANGED <<nsent, readbuf, handled, writebuf, pollout, s2c, recv_buf, received>>

(* poll() on the client's entry.                                           *)
PolloutReady == pollout /\ Len(s2c) + PolloutRoom <= SockRoom
PollinReady  == c2s # <<>>

(* POLLOUT goes first: write_to_client.                                    *)
WriteToClient ==
  /\ PolloutReady
  /\ \E n \in 1..Len(Unwritten(writebuf)) :
       /\ s2c' = s2c \o SubSeq(Unwritten(writebuf), 1, n)
       /\ writebuf' = HaveWritten(writebuf, n)
  /\ pollout' = HasWriteData(writebuf')
  /\ UNCHANGED <<nsent, out, c2s, readbuf, handled, recv_buf, received>>

(* The answers to the lines that are requests (parse_request drops every   *)
(* other line), and queue_write for each of them.                          *)
AnswersTo(lines) ==
  LET isRequest(l) == \E n \in 1..MaxReq : l = Body(Request(n))
      requests == SelectSeq(lines, isRequest)
  IN  [i \in 1..Len(requests) |-> Answer(requests[i][1].n)]

(* Mutant: input waits while there is output to write. *)
ReadWhenWritten ==
  /\ ~pollout /\ PollinReady
  /\ \E n \in {Min({ReadOnce, Len(c2s)})} :
     \E b \in {HaveRead(PrepareRead(readbuf, ReadOnce), SubSeq(c2s, 1, n))} :
     \E lines \in {Lines(InUse(b))}, old \in {LastNewline(InUse(b))} :
     \E answers \in {AnswersTo(lines)}, order \in MemcpyOrders :
         /\ c2s' = SubSeq(c2s, n + 1, Len(c2s))
         /\ handled' = handled \o lines
         /\ writebuf' = FoldLeft(PushWriteData, writebuf, answers)
         /\ pollout' = (pollout \/ answers # <<>>)
         /\ readbuf' = IF old > 0 THEN HaveTaken(b, old, order) ELSE b
  /\ UNCHANGED <<nsent, out, s2c, recv_buf, received>>

(* Else POLLIN: read_on_client reads once and handle_msg works on every    *)
(* complete line, then takes them out of the buffer.                       *)
ReadOnClient ==
  /\ ~PolloutReady /\ PollinReady
  /\ \E n \in {Min({ReadOnce, Len(c2s)})} :
     \E b \in {HaveRead(PrepareRead(readbuf, ReadOnce), SubSeq(c2s, 1, n))} :
     \E lines \in {Lines(InUse(b))}, old \in {LastNewline(InUse(b))} :
     \E answers \in {AnswersTo(lines)}, order \in MemcpyOrders :
         /\ c2s' = SubSeq(c2s, n + 1, Len(c2s))
         /\ handled' = handled \o lines
         /\ writebuf' = FoldLeft(PushWriteData, writebuf, answers)
         /\ pollout' = (pollout \/ answers # <<>>)
         /\ readbuf' = IF old > 0 THEN HaveTaken(b, old, order) ELSE b
  /\ UNCHANGED <<nsent, out, s2c, recv_buf, received>>

(* Mutant: the rest after the last newline is dropped. *)
ReadLinesDropRest ==
  /\ out = <<>> /\ s2c # <<>>
  /\ LET n == Min({RecvOnce, Len(s2c)})
         s == SubSeq(s2c, 1, n)
     IN  /\ s2c' = SubSeq(s2c, n + 1, Len(s2c))
         /\ received' = received \o Lines(recv_buf \o s)
         /\ recv_buf' = IF Newlines(s) # {} THEN <<>> ELSE recv_buf \o s
  /\ UNCHANGED <<nsent, out, c2s, readbuf, handled, writebuf, pollout>>

(* read_lines, between two requests: one read_from_client.  Without a      *)
(* newline the bytes are kept and read_lines tries again; with one the     *)
(* complete lines are returned and the rest is kept.                       *)
ReadLines ==
  /\ out = <<>> /\ s2c # <<>>
  /\ LET n   == Min({RecvOnce, Len(s2c)})
         all == recv_buf \o SubSeq(s2c, 1, n)
     IN  /\ s2c' = SubSeq(s2c, n + 1, Len(s2c))
         /\ received' = received \o Lines(all)
         /\ recv_buf' = SubSeq(all, LastNewline(all) + 1, Len(all))
  /\ UNCHANGED <<nsent, out, c2s, readbuf, handled, writebuf, pollout>>

WireDone == Len(received) = MaxReq /\ UNCHANGED wireVars

ServerStep == WriteToClient \/ ReadOnClient
WireNext == SendRequest \/ SendRequestString \/ ServerStep \/ ReadLines \/ WireDone

WireSpec == WireInit /\ [][WireNext]_wireVars

(* The server's loop runs, the client goes on with a request it has begun  *)
(* to send, and reads its answers now and then (fetch_new_results).        *)
WireFairSpec == WireSpec /\ WF_wireVars(ServerStep) /\ WF_wireVars(SendRequestString) /\ WF_wireVars(ReadLines)

-----------------------------------------------------------------------------
MaxLine == Max({ReqLen[n] : n \in 1..MaxReq})

(* However reads and writes cut the bytes, handle_msg sees exactly the     *)
(* lines the client sent, whole, once each and in order, and so does the   *)
(* client with the lines of queue_write.  The server has POLLOUT set       *)
(* exactly while something is unwritten, and the line being written is     *)
(* never exhausted (prepare_write's assertion has_write_data, and no       *)
(* write() of 0 bytes).  The read buffer only grows with the longest line, *)
(* never with the number of requests.                                      *)
LinesIntact ==
  /\ handled = [i \in 1..Len(handled) |-> Body(Request(i))]
  /\ received = [i \in 1..Len(received) |-> Body(Answer(i))]
  /\ pollout <=> HasWriteData(writebuf)
  /\ HasWriteData(writebuf) => writebuf.pointer < Len(writebuf.data)
  /\ readbuf.len < MaxLine
  /\ readbuf.capacity <= 2 * (MaxLine + 2 * ReadOnce)

(* Nobody waits for the other for ever, although the client does not read  *)
(* while it sends and the socket buffers are small: every request that is  *)
(* begun is sent and answered.                                             *)
EveryRequestAnswered ==
  \A n \in 1..MaxReq : nsent >= n ~> Len(received) >= n
=============================================================================
