------------------------------ MODULE Sockets ------------------------------
(***************************************************************************)
(* studio14: a server and its clients.  In AF_Local each client sends one  *)
(* text, which the server prints, until a text starts with "quit"; in      *)
(* AF_INET the server sends each client one message, which it prints.      *)
(*                                                                         *)
(* A server serves one connection after the other; the rest waits in the   *)
(* backlog of the listening socket.  The user may kill any process, and    *)
(* start the server again.  A message of AF_INET, and a text of AF_Local,  *)
(* is written by one call and arrives whole.                               *)
(***************************************************************************)
EXTENDS Integers, Sequences

CONSTANTS
  Families,      \* subset of {"AF_Local", "AF_INET"}
  Clients,       \* processes that connect, once each
  Texts,         \* what they may send: sequences of characters
  Quit,          \* the character that stands for "quit"
  BUF_LEN,       \* 1024 in the code
  CONNECT_RETRY, \* 5 in the code
  MaxStarts      \* bound: starts of the server

VARIABLES
  family,       \* which of the two systems runs
  file,         \* the name of the local socket exists
  server,       \* where the server is
  starts,       \* how often it was started
  retries,      \* calls of accept() that have failed in a row
  conn,         \* the client it serves
  backlog,      \* the clients it has yet to accept
  pcBuf,        \* its buffer, s32stringlen long
  s32idx,       \* characters read into the buffer
  client,       \* where each client is
  text,         \* the text of each client
  met,          \* history: the start of the server it has connected to
  wire,         \* what was sent on its connection and is not yet read
  hung,         \* its connection: "up", "closed" or "reset" by the server
  printed,      \* what this server has printed, with the client it served
  output        \* what each client has printed

links == <<client, text, met, wire, hung, output>>
buffer == <<pcBuf, s32idx>>
vars == <<family, file, server, starts, retries, conn, backlog, buffer, links, printed>>

NUL == "NUL"
Unknown == "?"    \* a byte nobody has set
None == "none"
Msg == "msg"      \* "This is a test message."
Down == {"none", "failed", "killed", "exited"}
Gone == {"exited", "failed", "killed"}
s32stringlen == Len(pcBuf)
Fresh(n) == [i \in 1 .. n |-> Unknown]
Set(seq) == {seq[i] : i \in 1 .. Len(seq)}

Init ==
  /\ family = "none" /\ file = FALSE
  /\ server = "none" /\ starts = 0 /\ retries = 0
  /\ conn = None /\ backlog = << >>
  /\ pcBuf = << >> /\ s32idx = 0
  /\ client = [c \in Clients |-> "start"] /\ text = [c \in Clients |-> << >>]
  /\ met = [c \in Clients |-> 0]
  /\ wire = [c \in Clients |-> << >>] /\ hung = [c \in Clients |-> "up"]
  /\ printed = << >> /\ output = [c \in Clients |-> << >>]

-----------------------------------------------------------------------------
(* The server *)

\* The user takes one of the two systems.
Run ==
  /\ family = "none" /\ family' \in Families
  /\ UNCHANGED <<file, server, starts, retries, conn, backlog, buffer, links, printed>>

\* The end of the process: what it has accepted is closed, the backlog reset.
EndServer(to) ==
  /\ server' = to
  /\ conn' = None /\ backlog' = << >>
  /\ hung' = [c \in Clients |-> IF c \in Set(backlog) THEN "reset"
                                ELSE IF c = conn THEN "closed" ELSE hung[c]]
  /\ UNCHANGED <<family, starts, retries, buffer, client, text, met, wire, printed, output>>

\* socket(), bind(), listen() and malloc(): a local name can be bound once, a
\* port again at once (SO_REUSEADDR).
Start ==
  /\ family # "none" /\ server \in Down /\ starts < MaxStarts
  /\ starts' = starts + 1 /\ retries' = 0
  /\ IF family = "AF_Local" /\ file
     THEN server' = "failed" /\ UNCHANGED <<file, pcBuf, printed>>
     ELSE /\ server' = "accept"
          /\ file' = (family = "AF_Local")
          /\ pcBuf' = Fresh(BUF_LEN)
          /\ printed' = << >>
  /\ UNCHANGED <<family, conn, backlog, s32idx, links>>

Accept ==
  /\ server = "accept" /\ backlog # << >>
  /\ server' = "serve"
  /\ conn' = Head(backlog) /\ backlog' = Tail(backlog)
  /\ retries' = 0 /\ s32idx' = 0
  /\ UNCHANGED <<family, file, starts, pcBuf, links, printed>>

\* accept() may fail, for want of a file descriptor.
AcceptFails ==
  /\ server = "accept"
  /\ IF retries + 1 < CONNECT_RETRY
     THEN retries' = retries + 1
          /\ UNCHANGED <<family, file, server, starts, conn, backlog, buffer, links,
                         printed>>
     ELSE EndServer("failed") /\ UNCHANGED file

\* Mutant: the buffer grows when a character has been stored behind its end.
ReadChar_Late ==
  /\ family = "AF_Local" /\ server = "serve" /\ wire[conn] # << >>
  /\ s32idx' = s32idx + 1
  /\ wire' = [wire EXCEPT ![conn] = Tail(@)]
  /\ IF s32idx >= s32stringlen THEN server' = "outside" /\ UNCHANGED pcBuf
     ELSE LET stored == [pcBuf EXCEPT ![s32idx'] = Head(wire[conn])]
          IN  /\ pcBuf' = IF s32idx' > s32stringlen THEN stored \o Fresh(BUF_LEN) ELSE stored
              /\ UNCHANGED server
  /\ UNCHANGED <<family, file, starts, retries, conn, backlog, client, text, met,
                 hung, printed, output>>

\* The loop that reads, and lets the buffer grow when it is full.
ReadChar ==
  /\ family = "AF_Local" /\ server = "serve" /\ wire[conn] # << >>
  /\ s32idx' = s32idx + 1
  /\ wire' = [wire EXCEPT ![conn] = Tail(@)]
  /\ IF s32idx >= s32stringlen THEN server' = "outside" /\ UNCHANGED pcBuf
     ELSE LET stored == [pcBuf EXCEPT ![s32idx'] = Head(wire[conn])]
          IN  /\ pcBuf' = IF s32idx' >= s32stringlen THEN stored \o Fresh(BUF_LEN) ELSE stored
              /\ UNCHANGED server
  /\ UNCHANGED <<family, file, starts, retries, conn, backlog, client, text, met,
                 hung, printed, output>>

ReallocFails ==
  /\ family = "AF_Local" /\ server = "serve"
  /\ wire[conn] # << >> /\ s32idx + 1 >= s32stringlen
  /\ EndServer("failed") /\ UNCHANGED file

\* What printf("%s") takes for the text: the buffer up to its first NUL.
Shown(buf) ==
  LET ends == {i \in 1 .. Len(buf) : buf[i] = NUL} IN
  IF ends = {} THEN buf
  ELSE SubSeq(buf, 1, (CHOOSE i \in ends : \A j \in ends : i <= j) - 1)

\* Does it start with "quit"?  A buffer nobody has set may.
Quits(buf) == IF buf[1] = Unknown THEN BOOLEAN ELSE {buf[1] = Quit}

\* At the end of the connection the buffer is printed, as it is.
PrintText ==
  /\ family = "AF_Local" /\ server = "serve"
  /\ wire[conn] = << >> /\ client[conn] \in Gone
  /\ printed' = Append(printed, <<conn, Shown(pcBuf)>>)
  /\ \E quits \in Quits(pcBuf) : server' = IF quits THEN "close" ELSE "accept"
  /\ conn' = None
  /\ UNCHANGED <<family, file, starts, retries, backlog, buffer, links>>

\* close() of the listening socket ...
CloseListen ==
  /\ server = "close" /\ server' = "unlink"
  /\ backlog' = << >>
  /\ hung' = [c \in Clients |-> IF c \in Set(backlog) THEN "reset" ELSE hung[c]]
  /\ UNCHANGED <<family, file, starts, retries, conn, buffer, client, text, met, wire,
                 printed, output>>

\* ... and unlink() of its name.
Unlink ==
  /\ server = "unlink"
  /\ file' = FALSE
  /\ EndServer("exited")

\* The server of AF_INET writes its message and closes the connection.
SendMessage ==
  /\ family = "AF_INET" /\ server = "serve"
  /\ server' = "accept"
  /\ wire' = [wire EXCEPT ![conn] = <<Msg>>]
  /\ hung' = [hung EXCEPT ![conn] = "closed"]
  /\ conn' = None
  /\ UNCHANGED <<family, file, starts, retries, backlog, buffer, client, text, met,
                 printed, output>>

KillServer ==
  /\ server \notin Down
  /\ EndServer("killed") /\ UNCHANGED file

-----------------------------------------------------------------------------
(* The clients *)

Others == <<family, file, server, starts, retries, conn, buffer, printed>>

\* A client of AF_Local has read its text; without a connection it goes on, and
\* fails to write.  The socket listens until it is closed.
Connect(c) ==
  /\ family # "none" /\ client[c] = "start"
  /\ \E s \in IF family = "AF_Local" THEN Texts ELSE {<< >>} : text' = [text EXCEPT ![c] = s]
  /\ IF server \in {"accept", "serve", "close"}
     THEN /\ client' = [client EXCEPT ![c] = "connected"]
          /\ backlog' = Append(backlog, c)
          /\ met' = [met EXCEPT ![c] = starts]
     ELSE client' = [client EXCEPT ![c] = "failed"] /\ UNCHANGED <<backlog, met>>
  /\ UNCHANGED <<Others, wire, hung, output>>

\* strlen(acBuf) + 2 characters: the one behind the NUL is whatever was there.
WriteText(c) ==
  /\ family = "AF_Local" /\ client[c] = "connected"
  /\ IF hung[c] = "up"
     THEN /\ wire' = [wire EXCEPT ![c] = text[c] \o <<NUL, Unknown>>]
          /\ client' = [client EXCEPT ![c] = "exited"]
     ELSE client' = [client EXCEPT ![c] = "failed"] /\ UNCHANGED wire
  /\ UNCHANGED <<Others, text, met, backlog, hung, output>>

\* The client of AF_INET reads until read() returns 0.
ReadMessage(c) ==
  /\ family = "AF_INET" /\ client[c] = "connected" /\ wire[c] # << >>
  /\ wire' = [wire EXCEPT ![c] = Tail(@)]
  /\ output' = [output EXCEPT ![c] = Append(@, Head(wire[c]))]
  /\ UNCHANGED <<Others, text, met, backlog, client, hung>>

\* An error of read() counts as a character: it prints what cbuf holds.
ReadError(c) ==
  /\ family = "AF_INET" /\ client[c] = "connected" /\ hung[c] = "reset"
  /\ hung' = [hung EXCEPT ![c] = "closed"]
  /\ output' = [output EXCEPT ![c] = Append(@, Unknown)]
  /\ UNCHANGED <<Others, text, met, backlog, client, wire>>

EndClient(c) ==
  /\ family = "AF_INET" /\ client[c] = "connected"
  /\ wire[c] = << >> /\ hung[c] = "closed"
  /\ client' = [client EXCEPT ![c] = "exited"]
  /\ UNCHANGED <<Others, text, met, backlog, wire, hung, output>>

KillClient(c) ==
  /\ client[c] = "connected"
  /\ client' = [client EXCEPT ![c] = "killed"]
  /\ UNCHANGED <<Others, text, met, backlog, wire, hung, output>>

Server ==
  \/ Run \/ Start \/ Accept \/ AcceptFails \/ ReadChar \/ ReallocFails \/ PrintText
  \/ CloseListen \/ Unlink \/ SendMessage \/ KillServer
Client(c) ==
  \/ Connect(c) \/ WriteText(c) \/ ReadMessage(c) \/ ReadError(c) \/ EndClient(c)
  \/ KillClient(c)

Next == Server \/ \E c \in Clients : Client(c)

Spec == Init /\ [][Next]_vars

-----------------------------------------------------------------------------
(* Properties *)

(***************************************************************************)
(* The server prints the text of each client it has served, whole, and     *)
(* never stores outside its buffer.  For a client that was killed before   *)
(* it wrote, it prints the text of the client before once more, or what    *)
(* malloc() left in the buffer if there was none (line 105).               *)
(***************************************************************************)
TextsArePrinted ==
  /\ server # "outside"
  /\ \A i \in 1 .. Len(printed) :
       LET c == printed[i][1] IN
       IF client[c] = "exited" THEN printed[i][2] = text[c]
       ELSE printed[i][2] = IF i = 1 THEN Fresh(BUF_LEN) ELSE printed[i - 1][2]

(***************************************************************************)
(* A text that was sent with success waits for the server, or is printed,  *)
(* and a client of AF_INET that has ended has printed the message, unless  *)
(* the very server it connected to has stopped since: one that was started *)
(* later makes up for none (main() of both servers).  That client reports  *)
(* success on nothing, or on a character no one sent (client.c:55).        *)
(***************************************************************************)
AnswersOrStops ==
  \A c \in Clients : client[c] = "exited" =>
    LET stopped == server \in Down \cup {"unlink"} \/ starts > met[c] IN
    /\ family = "AF_INET" => \/ output[c] = <<Msg>>
                             \/ output[c] \in {<< >>, <<Unknown>>} /\ stopped
    /\ family = "AF_Local" =>
         \/ c = conn \/ c \in Set(backlog)
         \/ \E i \in 1 .. Len(printed) : printed[i][1] = c
         \/ stopped

\* Both: what the server prints, and whom it answers.
ConnectionsTold == TextsArePrinted /\ AnswersOrStops
=============================================================================
