----------------------------- MODULE ServerConn -----------------------------
(***************************************************************************)
(* The connections of the flexkvs server over sockets (server/main.c), for *)
(* one worker thread: the receive and transmit buffers, the epoll mode,    *)
(* the requests and the reference a connection holds to an item.  The      *)
(* clients (external) may send several requests before they read an        *)
(* answer, in any pieces, and may close.                                   *)
(*                                                                         *)
(* A request is ReqLen bytes, of which Header are the header, and an answer*)
(* ResLen.  All requests are for one key; an item is the one stored for it.*)
(* Lengths are kept in 16 bits: modulo LenMod.  Once more bytes have been  *)
(* received than such a length counts, some are lost: the model ends there.*)
(* DELETE, which only the DEL_TEST build of the benchmark sends, is left   *)
(* out.                                                                    *)
(***************************************************************************)
EXTENDS Integers, Sequences, FiniteSets, FiniteSetsExt

CONSTANTS Conns, Header, ReqLen, ResLen,
          MAX_MSGSIZE, LenMod,
          Window,       \* bytes a client sends ahead of the answers it has read
          SockSpace,    \* bytes a socket takes before it is full
          MaxRequests,  \* bound: requests of a connection
          Quitters      \* connections whose client may close

\* A length never reaches the end of a buffer (2^16 <= MAX_MSGSIZE).  An answer is
\* shorter than the SET that stored its value, and that was complete, so a 16-bit
\* length holds it.
ServerAssumption == /\ Conns # {} /\ {ReqLen, MAX_MSGSIZE, LenMod, Window} \subseteq Nat
                    /\ LenMod <= MAX_MSGSIZE
                    /\ Header \in 1 .. ReqLen /\ ResLen \in 1 .. LenMod - 1
                    /\ SockSpace \in Nat \ {0} /\ Quitters \subseteq Conns

VARIABLES client,  \* client[c]: requests begun and answered, bytes sent of the last, open?
          up, down,\* bytes under way to and from the server
          kinds,   \* kinds[c]: the requests sent and not processed
          conn,    \* conn[c]: the server's struct connection, "wr" its epoll mode
          pc,      \* what the worker does: "wait", "recv", "process", "send", "end", "abort"
          cur,     \* the connection it does it for
          item,    \* the item in the table: its count, and whether it is there
          overrun  \* history: rx_len has wrapped

vars == <<client, up, down, kinds, conn, pc, cur, item, overrun>>

NewConn == [rx_len |-> 0, rx_off |-> 0, tx_len |-> 0, tx_off |-> 0, wr |-> FALSE,
            it |-> FALSE, open |-> TRUE]

\* Every connection has been accepted (accept_connections).
Init == /\ client = [c \in Conns |-> [begun |-> 0, part |-> 0, answered |-> 0, bytes |-> 0, open |-> TRUE]]
        /\ up = [c \in Conns |-> 0] /\ down = [c \in Conns |-> 0]
        /\ kinds = [c \in Conns |-> <<>>]
        /\ conn = [c \in Conns |-> NewConn]
        /\ pc = "wait" /\ cur = CHOOSE c \in Conns : TRUE
        /\ item = [stored |-> FALSE, ref |-> 0] /\ overrun = FALSE

Goto(p) == pc' = p
Sub(a, b) == (a - b) % LenMod

-----------------------------------------------------------------------------
(* Clients (external).                                                     *)

Unanswered(c) == ReqLen * (client[c].begun - client[c].answered)

\* Send n bytes: the rest of a request, or the start of another one.
Send(c, n) ==
    LET cl == client[c] new == cl.part = 0 IN
    /\ cl.open /\ up[c] + n <= SockSpace
    /\ n <= ReqLen - cl.part
    /\ new => cl.begun < MaxRequests /\ Unanswered(c) + ReqLen <= Window
    /\ client' = [client EXCEPT ![c].begun = IF new THEN @ + 1 ELSE @,
                                ![c].part = (@ + n) % ReqLen]
    /\ IF new THEN \E k \in {"GET", "SET"} : kinds' = [kinds EXCEPT ![c] = Append(@, k)]
       ELSE UNCHANGED kinds
    /\ up' = [up EXCEPT ![c] = @ + n]
    /\ UNCHANGED <<down, conn, pc, cur, item, overrun>>

Receive(c) == /\ client[c].open /\ down[c] > 0
              /\ LET b == client[c].bytes + down[c] IN
                 client' = [client EXCEPT ![c].bytes = b % ResLen, ![c].answered = @ + b \div ResLen]
              /\ down' = [down EXCEPT ![c] = 0]
              /\ UNCHANGED <<up, kinds, conn, pc, cur, item, overrun>>

Quit(c) == /\ c \in Quitters /\ client[c].open
           /\ client' = [client EXCEPT ![c].open = FALSE]
           /\ UNCHANGED <<up, down, kinds, conn, pc, cur, item, overrun>>

-----------------------------------------------------------------------------
(* The worker.                                                             *)

\* A bug to catch: the connection stays registered for what it was.
ModeStays(c, wr) == conn[c]

\* conn_upepoll.
Mode(c, wr) == [conn[c] EXCEPT !.wr = wr]
Readable(c) == up[c] > 0 \/ ~client[c].open
Writable(c) == down[c] < SockSpace \/ ~client[c].open

\* processing_thread: an event of connection c, for what it is registered.
Event(c) == /\ pc = "wait" /\ conn[c].open
            /\ IF conn[c].wr THEN Writable(c) ELSE Readable(c)
            /\ cur' = c
            /\ Goto(IF conn[c].wr THEN "send" ELSE "recv")
            /\ UNCHANGED <<client, up, down, kinds, conn, item, overrun>>

\* The worker's own assertion in item_unref; the last reference frees the item.
Unref == IF item.ref = 0 THEN Goto("abort") /\ UNCHANGED item
         ELSE item' = [item EXCEPT !.ref = @ - 1] /\ Goto("wait")

\* conn_close: drops the reference to the item of the last request, whether or
\* not it has been dropped before.
conn_close(c) == /\ IF conn[c].it THEN Unref ELSE Goto("wait") /\ UNCHANGED item
                 /\ conn' = [conn EXCEPT ![c] = [NewConn EXCEPT !.open = FALSE]]

\* conn_events for an error event: the client has gone.
Hangup(c) == /\ pc = "wait" /\ conn[c].open /\ ~client[c].open
             /\ conn_close(c)
             /\ UNCHANGED <<client, up, down, kinds, cur, overrun>>

\* conn_req_iscomp.
Complete(s) == LET avail == Sub(s.rx_len, s.rx_off) IN avail >= Header /\ avail >= ReqLen

\* conn_recv: one turn of its loop.
conn_recv == LET c == cur
                 n == IF up[c] <= MAX_MSGSIZE - conn[c].rx_len THEN up[c]
                      ELSE MAX_MSGSIZE - conn[c].rx_len
                 s == [conn[c] EXCEPT !.rx_len = (@ + n) % LenMod]
             IN
    /\ pc = "recv"
    /\ \/ /\ n > 0 /\ conn' = [conn EXCEPT ![c] = s] /\ up' = [up EXCEPT ![c] = @ - n]
          /\ Goto(IF Complete(s) THEN "process" ELSE "recv") /\ UNCHANGED item
          /\ overrun' = (conn[c].rx_len + n >= LenMod)
       \/ /\ n = 0 /\ client[c].open /\ conn' = [conn EXCEPT ![c] = Mode(c, FALSE)]
          /\ Goto("wait") /\ UNCHANGED <<up, item, overrun>>
       \/ n = 0 /\ ~client[c].open /\ conn_close(c) /\ UNCHANGED <<up, overrun>>
    /\ UNCHANGED <<client, down, kinds, cur>>

\* A bug to catch: a full socket ends the sending.
conn_send_once == LET c == cur
                      n == Min({Sub(conn[c].tx_len, conn[c].tx_off), SockSpace - down[c]}) IN
    /\ pc = "send"
    /\ IF ~client[c].open THEN conn_close(c) /\ UNCHANGED down
       ELSE /\ conn' = [conn EXCEPT ![c].tx_off = 0, ![c].tx_len = 0]
            /\ down' = [down EXCEPT ![c] = @ + n] /\ Goto("process") /\ UNCHANGED item
    /\ UNCHANGED <<client, up, kinds, cur, overrun>>

\* conn_send: one turn of its loop.  Writing to a closed connection fails.
conn_send == LET c == cur
                 n == Min({Sub(conn[c].tx_len, conn[c].tx_off), SockSpace - down[c]})
                 s == [conn[c] EXCEPT !.tx_off = (@ + n) % LenMod] IN
    /\ pc = "send"
    /\ \/ ~client[c].open /\ conn_close(c) /\ UNCHANGED down
       \/ /\ client[c].open /\ n = 0 /\ conn' = [conn EXCEPT ![c] = Mode(c, TRUE)]
          /\ Goto("wait") /\ UNCHANGED <<down, item>>
       \/ /\ client[c].open /\ n # 0 /\ down' = [down EXCEPT ![c] = @ + n] /\ UNCHANGED item
          /\ IF s.tx_off < s.tx_len THEN conn' = [conn EXCEPT ![c] = s] /\ Goto("send")
             ELSE /\ conn' = [conn EXCEPT ![c] = [s EXCEPT !.tx_off = 0, !.tx_len = 0]]
                  /\ Goto("process")
    /\ UNCHANGED <<client, up, kinds, cur, overrun>>

\* conn_req_process: a GET takes and drops a reference to the item; a SET writes
\* the item in place, or stores a new one.  Either leaves c->it as it is.
conn_req_process == LET c == cur k == Head(kinds[c]) IN
    /\ pc = "process" /\ Complete(conn[c])
    /\ item' = IF k = "SET" /\ ~item.stored THEN [stored |-> TRUE, ref |-> 1] ELSE item
    /\ conn' = [conn EXCEPT ![c].it = item'.stored, ![c].rx_off = (@ + ReqLen) % LenMod,
                            ![c].tx_len = (@ + ResLen) % LenMod]
    /\ kinds' = [kinds EXCEPT ![c] = Tail(@)]
    /\ Goto(IF item.stored /\ item.ref = 0 THEN "abort" ELSE "send")
    /\ UNCHANGED <<client, up, down, cur, overrun>>

\* No complete request is left: move up the receive buffer.
EndEvent == LET s == conn[cur] IN
    /\ pc = "process" /\ ~Complete(s)
    /\ conn' = [conn EXCEPT ![cur] = [s EXCEPT !.rx_len = Sub(s.rx_len, s.rx_off), !.rx_off = 0,
                                               !.wr = FALSE]]
    /\ Goto("wait")
    /\ UNCHANGED <<client, up, down, kinds, cur, item, overrun>>

Worker == \/ \E c \in Conns : Event(c) \/ Hangup(c)
          \/ conn_recv \/ conn_send \/ conn_req_process \/ EndEvent
Next == /\ ~overrun
        /\ \/ Worker
           \/ \E c \in Conns : Receive(c) \/ Quit(c) \/ \E n \in 1 .. ReqLen : Send(c, n)

Finish(c) == client[c].part > 0 /\ \E n \in 1 .. ReqLen : Send(c, n)

\* The worker keeps running and serves every connection that has an event; the
\* clients read their answers and finish the requests they have begun.
Fairness == /\ WF_vars(~overrun /\ Worker)
            /\ \A c \in Conns : /\ SF_vars(~overrun /\ Event(c))
                                /\ WF_vars(~overrun /\ Receive(c))
                                /\ WF_vars(~overrun /\ Finish(c))
Spec == Init /\ [][Next]_vars /\ Fairness

-----------------------------------------------------------------------------
\* Requests and answers are bytes somewhere on their way: what client c has sent is
\* in the socket, in the receive buffer, or processed; each processed request has
\* its answer in the transmit buffer, in the socket, or read; whatever the pieces.
\* And the worker waits for room in a socket only while it has something to send.
\* All of it as long as no 16-bit length has wrapped.
ServerSafe ==
    ~overrun => \A c \in Conns : conn[c].open =>
      LET cl == client[c] s == conn[c]
          sent == ReqLen * cl.begun - (IF cl.part = 0 THEN 0 ELSE ReqLen - cl.part)
          processed == cl.begun - Len(kinds[c])
      IN /\ sent = up[c] + Sub(s.rx_len, s.rx_off) + ReqLen * processed
         /\ cl.open => ResLen * processed = Sub(s.tx_len, s.tx_off) + down[c] + cl.bytes + ResLen * cl.answered
         /\ s.wr /\ pc = "wait" => s.tx_off < s.tx_len

\* The assertion of item_unref, "refcount > 0", and of item_ref, "old != 1".
RefcountsHold == pc # "abort"

Owed(c) == client[c].begun > client[c].answered
Settled(c) == ~Owed(c) \/ ~client[c].open \/ pc = "abort" \/ overrun

\* Every request that has been begun is answered, unless a client closed.
RequestsAnswered == \A c \in Conns : Owed(c) ~> Settled(c)
==============================================================================
