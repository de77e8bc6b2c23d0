------------------------------- MODULE Stream -------------------------------
(***************************************************************************)
(* How messages become bytes and bytes become messages again               *)
(* (network/src/tcphandler.cpp, .h): the TcpHandler of one server, whose   *)
(* main thread appends to m_pushBuffer in send() and whose net thread      *)
(* writes in onCanWrite(), and the TcpHandler at the other end of the      *)
(* connection, which cuts the bytes into messages in onCanRead().  Both    *)
(* servers of the repository run this code.                                *)
(*                                                                         *)
(* A byte is named by its message and its place in the frame: places 1 and *)
(* 2 are the length, the others the data.  wire is all that lies between   *)
(* the two handlers.                                                       *)
(***************************************************************************)
EXTENDS Integers, Sequences, SequencesExt

CONSTANTS
  MaxMsgs,   \* bound: how many messages are sent
  Lens,      \* the lengths they may have
  BufLen,    \* NET_BUFF_LEN, the size of each of the three buffers
  WireMax,   \* how many bytes the sockets and the network hold
  Keeps,     \* what the surroundings are relied on for, see below
  MayBreak,  \* whether the connection may break
  Stale      \* a byte of m_recvBuffer that recv() did not fill

ASSUME StreamAssumption ==
  /\ MaxMsgs \in Nat
  /\ Lens \subseteq Nat
  /\ BufLen \in Nat \ {0}
  /\ WireMax \in Nat \ {0}
  /\ Keeps \subseteq {"burst", "header"}
  /\ MayBreak \in BOOLEAN

VARIABLES
  \* the sending handler
  lens,      \* history: the length of every message send() has appended
  push,      \* m_pushBuffer, m_pushLen bytes of it
  write,     \* m_writeBuffer, m_writeLen bytes of it
  point,     \* m_writePoint
  want,      \* whether the socket is in the poll's m_wfdset
  held,      \* whether the net thread has m_lock
  wpc,       \* where the net thread stands in onCanWrite()
  overrun,   \* whether send() has written past the end of m_pushBuffer
  \* between the two
  wire,
  broken,
  \* the receiving handler
  chunk,     \* m_recvBuffer, what the last recv() filled of it
  read,      \* read, the bytes of it not yet used; ret is Len(chunk)
  mread,     \* m_message.read
  header,    \* the bytes of m_message.size
  buffer,    \* m_message.buffer
  crashed,   \* whether memcpy() was called with a negative length
  told       \* history: the data of every JobRecv

sender == <<lens, push, write, point, want, held, wpc, overrun>>
receiver == <<chunk, read, mread, header, buffer, crashed, told>>
vars == <<sender, wire, broken, receiver>>

msglen == 2

Least(a, b) == IF a < b THEN a ELSE b

\* The frame of message k of length n.
Frame(k, n) == [p \in 1 .. msglen + n |-> <<k, p>>]

Init ==
  /\ lens = <<>>
  /\ push = <<>>
  /\ write = <<>>
  /\ point = 0
  /\ want = FALSE
  /\ held = FALSE
  /\ wpc = "select"
  /\ overrun = FALSE
  /\ wire = <<>>
  /\ broken = FALSE
  /\ chunk = <<>>
  /\ read = 0
  /\ mread = -msglen
  /\ header = <<>>
  /\ buffer = <<>>
  /\ crashed = FALSE
  /\ told = <<>>
-----------------------------------------------------------------------------
(* TcpHandler::send on the main thread *)

\* Mutant: the two bytes of the length are forgotten.
FitsData(n) == Len(push) + n <= BufLen

Fits(n) == Len(push) + msglen + n <= BufLen

\* All of it under m_lock, which is not free again once onCanWrite() was called.
\* The code does not look whether the frame fits; an application that is relied on
\* for "burst" never sends more than that.
Send(n) ==
  /\ ~held /\ ~overrun
  /\ Len(lens) < MaxMsgs
  /\ "burst" \in Keeps => Fits(n)
  /\ lens' = Append(lens, n)
  /\ push' = push \o Frame(Len(lens) + 1, n)
  /\ overrun' = ~Fits(n)
  /\ want' = (want \/ write = <<>>)
  /\ UNCHANGED <<write, point, held, wpc, wire, broken, receiver>>
-----------------------------------------------------------------------------
(* TcpHandler::onCanWrite on the net thread *)

Room == WireMax - Len(wire)

\* select() finds the socket writable; onCanWrite() takes m_lock, and whichever way
\* it returns the net thread keeps it.
CanWrite ==
  /\ wpc = "select" /\ ~overrun
  /\ want
  /\ Room > 0 \/ broken
  /\ held' = TRUE
  /\ wpc' = "loop"
  /\ UNCHANGED <<lens, push, write, point, want, overrun, wire, broken, receiver>>

\* Mutant: m_pushLen is not reset.
SwapBuffersKeepsLen ==
  /\ wpc = "loop"
  /\ write = <<>>
  /\ push # <<>>
  /\ write' = push
  /\ UNCHANGED <<lens, push, point, want, held, wpc, overrun, wire, broken, receiver>>

\* Everything is written: what was appended is next.
SwapBuffers ==
  /\ wpc = "loop"
  /\ write = <<>>
  /\ push # <<>>
  /\ write' = push
  /\ push' = <<>>
  /\ UNCHANGED <<lens, point, want, held, wpc, overrun, wire, broken, receiver>>

NothingToWrite ==
  /\ wpc = "loop"
  /\ write = <<>> /\ push = <<>>
  /\ want' = FALSE
  /\ wpc' = "select"
  /\ UNCHANGED <<lens, push, write, point, held, overrun, wire, broken, receiver>>

\* send() takes n bytes; a buffer that is written out is empty again.
WriteSome(n) ==
  /\ wpc = "loop"
  /\ ~broken
  /\ n <= Len(write) - point /\ n <= Room
  /\ wire' = wire \o SubSeq(write, point + 1, point + n)
  /\ IF point + n = Len(write)
       THEN write' = <<>> /\ point' = 0
       ELSE point' = point + n /\ UNCHANGED write
  /\ UNCHANGED <<lens, push, want, held, wpc, overrun, broken, receiver>>

\* Mutant: a socket that would block is no longer waited for.
WouldBlockForgets ==
  /\ wpc = "loop"
  /\ write # <<>>
  /\ ~broken /\ Room = 0
  /\ want' = FALSE
  /\ wpc' = "select"
  /\ UNCHANGED <<lens, push, write, point, held, overrun, wire, broken, receiver>>

\* send() fails with WSAEWOULDBLOCK; the socket stays in m_wfdset.
WouldBlock ==
  /\ wpc = "loop"
  /\ write # <<>>
  /\ ~broken /\ Room = 0
  /\ wpc' = "select"
  /\ UNCHANGED <<lens, push, write, point, want, held, overrun, wire, broken, receiver>>

\* send() fails: the handler asks for its end.
WriteFails ==
  /\ wpc = "loop"
  /\ write # <<>>
  /\ broken
  /\ wpc' = "closed"
  /\ UNCHANGED <<lens, push, write, point, want, held, overrun, wire, broken, receiver>>
-----------------------------------------------------------------------------
(* The connection *)

\* It breaks, and what was under way is lost.
Break ==
  /\ MayBreak /\ ~broken
  /\ broken' = TRUE
  /\ wire' = <<>>
  /\ UNCHANGED <<sender, receiver>>

\* Of n bytes the last is the first of two that are a length.
CutsHeader(n) == n > 1 /\ wire[n][2] = 1
-----------------------------------------------------------------------------
(* TcpHandler::onCanRead *)

\* recv() returns n bytes.  A network that is relied on for "header" never returns
\* the first half of a length behind other bytes.
Recv(n) ==
  /\ read = 0 /\ ~crashed
  /\ n <= Len(wire) /\ n <= BufLen
  /\ "header" \in Keeps => ~CutsHeader(n)
  /\ chunk' = SubSeq(wire, 1, n)
  /\ wire' = SubSeq(wire, n + 1, Len(wire))
  /\ read' = n
  /\ UNCHANGED <<sender, broken, mread, header, buffer, crashed, told>>

\* n bytes of m_recvBuffer from the first one not yet used, received or not.
Unused(n) ==
  [p \in 1 .. n |->
     LET at == Len(chunk) - read + p IN IF at <= Len(chunk) THEN chunk[at] ELSE Stale]

\* Mutant: the whole length is taken to be there.
HeaderWhole == -mread

\* remain: the code compares with ret, all that was received, not with read.
HeaderPart == Least(-mread, Len(chunk))

\* A part of the length, or all of it, is read.
ReadHeader ==
  /\ read > 0
  /\ mread < 0
  /\ header' = header \o Unused(HeaderPart)
  /\ mread' = mread + HeaderPart
  /\ read' = read - HeaderPart
  /\ UNCHANGED <<sender, wire, broken, chunk, buffer, crashed, told>>

\* m_message.size, once both bytes of it are read.
Size == lens[header[1][1]]

\* need
BodyPart == Least(read, Size - mread)

\* A part of the data is read; a message that is complete becomes a JobRecv.  If read
\* is negative so is the part, and memcpy() is given a negative length.
ReadBody ==
  /\ read # 0 /\ ~crashed
  /\ mread >= 0
  /\ crashed' = (BodyPart < 0)
  /\ read' = read - BodyPart
  /\ LET got == buffer \o Unused(BodyPart)
     IN IF mread + BodyPart < Size
          THEN /\ mread' = mread + BodyPart
               /\ buffer' = got
               /\ UNCHANGED <<header, told>>
          ELSE /\ told' = Append(told, got)
               /\ mread' = -msglen
               /\ buffer' = <<>>
               /\ header' = <<>>
  /\ UNCHANGED <<sender, wire, broken, chunk>>
-----------------------------------------------------------------------------
Writer ==
  \/ CanWrite \/ SwapBuffers \/ NothingToWrite \/ WouldBlock \/ WriteFails
  \/ \E n \in 1 .. BufLen : WriteSome(n)

Reader ==
  \/ ReadHeader \/ ReadBody
  \/ \E n \in 1 .. BufLen : Recv(n)

Next == (\E n \in Lens : Send(n)) \/ Writer \/ Break \/ Reader

Spec == Init /\ [][Next]_vars

\* The net threads at both ends keep running, and the network delivers.
Fairness == WF_vars(Writer) /\ WF_vars(Reader)

FairSpec == Spec /\ Fairness
-----------------------------------------------------------------------------
\* What the receiver has used of the message it is at, and the parts of the buffers
\* that are still to be used and to be written.
InHand == header \o buffer
Unread == SubSeq(chunk, Len(chunk) - read + 1, Len(chunk))
Unwritten == SubSeq(write, point + 1, Len(write))

Bytes == (1 .. MaxMsgs) \X (1 .. msglen + BufLen)

TypeOK ==
  /\ lens \in Seq(Lens) /\ Len(lens) <= MaxMsgs
  /\ ~overrun => push \in Seq(Bytes) /\ Len(push) <= BufLen
  /\ write \in Seq(Bytes) /\ Len(write) <= BufLen
  /\ point \in 0 .. Len(write)
  /\ want \in BOOLEAN /\ held \in BOOLEAN /\ overrun \in BOOLEAN
  /\ wpc \in {"select", "loop", "closed"}
  /\ wire \in Seq(Bytes) /\ Len(wire) <= WireMax
  /\ broken \in BOOLEAN /\ crashed \in BOOLEAN
  /\ chunk \in Seq(Bytes) /\ Len(chunk) <= BufLen
  /\ read \in -1 .. Len(chunk)
  /\ mread \in -msglen .. BufLen
  /\ header \in Seq(Bytes \cup {Stale}) /\ Len(header) <= msglen
  /\ buffer \in Seq(Bytes) /\ (Len(header) = msglen => Len(buffer) <= Size)
  /\ told \in Seq(Seq(Bytes))

\* The receiver only ever uses bytes that recv() gave it, and fills a message up to
\* its size and no further: onCanRead() works with ret, read, remain and need, of
\* which a wrong one reads beyond m_recvBuffer or writes beyond buffer.
UsesWhatItGot ==
  /\ read >= 0 /\ ~crashed
  /\ Len(header) = msglen + Least(mread, 0)
  /\ mread >= 0 => Len(buffer) = mread /\ mread <= Size

\* The frames of the messages appended, and those of the messages told, joined.
Appended == FlattenSeq([k \in DOMAIN lens |-> Frame(k, lens[k])])
Arrived == FlattenSeq([k \in DOMAIN told |-> Frame(k, 0) \o told[k]])

\* No byte is lost, doubled or moved on its way through the three buffers, the wire
\* and the half-read message, however send() and recv() cut it: what was appended is
\* the messages told, each with its length before it, what is in hand, and what is
\* still to come.  So the messages told are those sent, whole, in order and once each.
BytesInOrder ==
  ~broken /\ ~overrun =>
    Appended = Arrived \o InHand \o Unread \o wire \o Unwritten \o push

\* A message with data that was appended is told, unless the connection breaks; an
\* empty one may have to wait for the bytes of the next.
AppendedIsTold ==
  \A k \in 1 .. MaxMsgs :
     (Len(lens) >= k /\ lens[k] > 0) ~> (Len(told) >= k \/ broken)

\* Every message that was appended is told (netcallback.h: "called when a network
\* message is received"), however the network cuts the bytes.
EveryMessageTold ==
  \A k \in 1 .. MaxMsgs : (Len(lens) >= k) ~> (Len(told) >= k \/ broken)
=============================================================================
