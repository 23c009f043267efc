----------------------------- MODULE BenchClient -----------------------------
(***************************************************************************)
(* The load generator of flexkvs (bench/main.c).  Each thread opens its    *)
(* connections, stores its share of the keys, waits until every thread has *)
(* done so, and then keeps up to MaxPending requests outstanding, at most  *)
(* one on a connection; a connection without one waits in a queue.         *)
(*                                                                         *)
(* A request and a response are MsgLen bytes, which the sockets take and   *)
(* deliver in pieces.  The server is external: it answers a request once   *)
(* all of it has arrived (see ServerConn).  Handling one event of a        *)
(* connection, and send_pending for one connection, are one step.          *)
(***************************************************************************)
EXTENDS Integers, Sequences, SequencesExt, FiniteSets

CONSTANTS threads,      \* settings.threads
          conns,        \* settings.conns, for each thread
          MaxPending,   \* settings.pending
          keys_num, MsgLen

BenchAssumption == /\ threads \in Nat \ {0} /\ conns \in Nat \ {0} /\ MaxPending \in Nat \ {0}
                   /\ keys_num \in Nat /\ MsgLen \in Nat \ {0}

Threads == 0 .. threads - 1
Conns(t) == {t} \X (1 .. conns)
AllConns == Threads \X (1 .. conns)

VARIABLES phase,        \* INIT, PRELOAD, WARMUP, RUNNING
          init_count,
          pc,           \* pc[t]: "connect", "loading", "loaded", "poll", "send"
          next_key,     \* next_key[t]: i of load_keys
          msgs_pending, \* msgs_pending[t], and pending of load_keys
          q,            \* q[t]: the queue q_first ... q_last
          evs,          \* evs[t]: connections of the batch epoll_wait returned
          conn          \* conn[co]: state, ep_wr, pending, tx, rx, owed, down

vars == <<phase, init_count, pc, next_key, msgs_pending, q, evs, conn>>

\* owed: response bytes the server has still to send; down: bytes to receive.
NewConn == [state |-> "closed", ep_wr |-> FALSE, pending |-> 0, tx |-> 0, rx |-> 0,
            owed |-> 0, down |-> 0]

Init == /\ phase = "INIT" /\ init_count = 0
        /\ pc = [t \in Threads |-> "connect"]
        /\ next_key = [t \in Threads |-> t] /\ msgs_pending = [t \in Threads |-> 0]
        /\ q = [t \in Threads |-> <<>>] /\ evs = [t \in Threads |-> {}]
        /\ conn = [co \in AllConns |-> NewConn]

-----------------------------------------------------------------------------
(* Sockets and server (external).                                          *)

Deliver(co) == /\ conn[co].owed > 0
               /\ \E n \in 1 .. conn[co].owed :
                    conn' = [conn EXCEPT ![co].owed = @ - n, ![co].down = @ + n]
               /\ UNCHANGED <<phase, init_count, pc, next_key, msgs_pending, q, evs>>

\* conn_send: the socket takes n bytes of the request c has to send.
Sent(c, n) == [c EXCEPT !.tx = @ - n, !.owed = IF c.tx = n THEN @ + MsgLen ELSE @]

\* conn_recv: what there is to read, and the response if it is complete.
Read(c) == [c EXCEPT !.rx = @ + c.down, !.down = 0]
Answered(c) == Read(c).rx >= MsgLen
Answer(c) == [Read(c) EXCEPT !.rx = @ - MsgLen, !.pending = @ - 1]

Readable(co) == conn[co].down > 0
Ready(co) == Readable(co) \/ conn[co].ep_wr

-----------------------------------------------------------------------------
(* prepare_core and wait_conns.                                            *)

\* conn_connect: done at once, or still connecting; epoll reports it either way.
conn_connect(co) == /\ pc[co[1]] = "connect" /\ conn[co].state = "closed"
                    /\ \A n \in 1 .. co[2] - 1 : conn[<<co[1], n>>].state # "closed"
                    /\ \E s \in {"open", "connecting"} :
                         conn' = [conn EXCEPT ![co].state = s, ![co].ep_wr = TRUE]
                    /\ UNCHANGED <<phase, init_count, pc, next_key, msgs_pending, q, evs>>

poll_conns(co) == /\ pc[co[1]] = "connect" /\ conn[co].ep_wr
                  /\ conn' = [conn EXCEPT ![co].state = "open", ![co].ep_wr = FALSE]
                  /\ q' = [q EXCEPT ![co[1]] = Append(@, co)]
                  /\ UNCHANGED <<phase, init_count, pc, next_key, msgs_pending, evs>>

\* All connections are open: start loading.
wait_conns(t) == /\ pc[t] = "connect" /\ Len(q[t]) = conns /\ phase # "INIT"
                 /\ pc' = [pc EXCEPT ![t] = "loading"]
                 /\ conn' = [co \in AllConns |-> IF co \in Conns(t) THEN [conn[co] EXCEPT !.ep_wr = TRUE]
                                                 ELSE conn[co]]
                 /\ UNCHANGED <<phase, init_count, next_key, msgs_pending, q, evs>>

-----------------------------------------------------------------------------
(* load_keys.                                                              *)

Loading(t) == next_key[t] < keys_num \/ msgs_pending[t] > 0

LoadWait(t) == /\ pc[t] = "loading" /\ Loading(t) /\ evs[t] = {}
               /\ \E co \in Conns(t) : Ready(co)
               /\ evs' = [evs EXCEPT ![t] = {co \in Conns(t) : Ready(co)}]
               /\ UNCHANGED <<phase, init_count, pc, next_key, msgs_pending, q, conn>>

Handled(co) == evs' = [evs EXCEPT ![co[1]] = @ \ {co}]

LoadRecv(co) ==
    LET t == co[1] c == conn[co] IN
    /\ pc[t] = "loading" /\ co \in evs[t] /\ Readable(co)
    /\ IF Answered(c)
       THEN /\ conn' = [conn EXCEPT ![co] = [Answer(c) EXCEPT !.ep_wr = TRUE]]
            /\ msgs_pending' = [msgs_pending EXCEPT ![t] = @ - 1]
       ELSE conn' = [conn EXCEPT ![co] = Read(c)] /\ UNCHANGED msgs_pending
    /\ Handled(co)
    /\ UNCHANGED <<phase, init_count, pc, next_key, q>>

\* The event is only EPOLLOUT; a response that came since waits for the next call.
LoadSend(co) ==
    LET t == co[1] c == conn[co]
        new == c.tx = 0 /\ next_key[t] < keys_num
        out == IF new THEN [c EXCEPT !.tx = MsgLen, !.pending = @ + 1] ELSE c
    IN
    /\ pc[t] = "loading" /\ co \in evs[t] /\ c.ep_wr
    /\ IF out.tx = 0 THEN conn' = [conn EXCEPT ![co].ep_wr = FALSE]
       ELSE \E n \in 1 .. out.tx :
              conn' = [conn EXCEPT ![co] = [Sent(out, n) EXCEPT !.ep_wr = (n < out.tx)]]
    /\ next_key' = [next_key EXCEPT ![t] = IF new THEN @ + threads ELSE @]
    /\ msgs_pending' = [msgs_pending EXCEPT ![t] = IF new THEN @ + 1 ELSE @]
    /\ Handled(co)
    /\ UNCHANGED <<phase, init_count, pc, q>>

LoadDone(t) == /\ pc[t] = "loading" /\ ~Loading(t) /\ evs[t] = {}
               /\ pc' = [pc EXCEPT ![t] = "loaded"] /\ init_count' = init_count + 1
               /\ UNCHANGED <<phase, next_key, msgs_pending, q, evs, conn>>

-----------------------------------------------------------------------------
(* thread_run, and the phases main goes through.                           *)

\* A bug to catch: the run starts when the first thread has loaded its keys.
PhaseTooEarly == /\ phase' = CASE phase = "INIT" -> "PRELOAD" [] phase = "PRELOAD" -> "WARMUP"
                                [] OTHER -> "RUNNING"
                 /\ phase # "RUNNING" /\ (phase = "WARMUP" => init_count > 0)
                 /\ UNCHANGED <<init_count, pc, next_key, msgs_pending, q, evs, conn>>

Phase == /\ phase' = CASE phase = "INIT" -> "PRELOAD" [] phase = "PRELOAD" -> "WARMUP"
                        [] OTHER -> "RUNNING"
         /\ phase # "RUNNING" /\ (phase = "WARMUP" => init_count >= threads)
         /\ UNCHANGED <<init_count, pc, next_key, msgs_pending, q, evs, conn>>

Run(t) == /\ pc[t] = "loaded" /\ phase = "RUNNING"
          /\ pc' = [pc EXCEPT ![t] = "send"]
          /\ UNCHANGED <<phase, init_count, next_key, msgs_pending, q, evs, conn>>

MaySend(t) == msgs_pending[t] < MaxPending /\ q[t] # <<>>

\* send_pending: a request on the first connection of the queue.  The assertions
\* of set_request and get_request are part of BenchSafe.
send_pending(t) ==
    LET co == Head(q[t])
        c == [conn[co] EXCEPT !.tx = MsgLen, !.pending = @ + 1]
    IN
    /\ pc[t] = "send" /\ MaySend(t)
    /\ \E n \in 0 .. MsgLen :
         conn' = [conn EXCEPT ![co] = [Sent(c, n) EXCEPT !.ep_wr = (n < MsgLen)]]
    /\ q' = [q EXCEPT ![t] = Tail(@)]
    /\ msgs_pending' = [msgs_pending EXCEPT ![t] = @ + 1]
    /\ UNCHANGED <<phase, init_count, pc, next_key, evs>>

Poll(t) == /\ pc[t] = "send" /\ ~MaySend(t)
           /\ \E co \in Conns(t) : Ready(co)
           /\ evs' = [evs EXCEPT ![t] = {co \in Conns(t) : Ready(co)}]
           /\ pc' = [pc EXCEPT ![t] = "poll"]
           /\ UNCHANGED <<phase, init_count, next_key, msgs_pending, q, conn>>

\* A bug to catch: the connection goes to the front of the queue.
conn_events_front(co, n) ==
    LET t == co[1] c == conn[co] got == c.pending > 0 /\ Answered(c) IN
    /\ pc[t] = "poll" /\ co \in evs[t]
    /\ n \in (IF c.tx = 0 THEN {0} ELSE 1 .. c.tx)
    /\ LET r == IF c.pending = 0 THEN c ELSE IF got THEN Answer(c) ELSE Read(c)
           s == IF c.tx = 0 THEN r ELSE Sent(r, n)
       IN conn' = [conn EXCEPT ![co] = [s EXCEPT !.ep_wr = (s.tx # 0)]]
    /\ msgs_pending' = [msgs_pending EXCEPT ![t] = IF got THEN @ - 1 ELSE @]
    /\ q' = [q EXCEPT ![t] = IF got /\ c.pending = 1 THEN <<co>> \o @ ELSE @]
    /\ Handled(co)
    /\ UNCHANGED <<phase, init_count, pc, next_key>>

\* conn_events: the response, if it is there, then what is left of the request.
conn_events(co, n) ==
    LET t == co[1] c == conn[co] got == c.pending > 0 /\ Answered(c) IN
    /\ pc[t] = "poll" /\ co \in evs[t]
    /\ n \in (IF c.tx = 0 THEN {0} ELSE 1 .. c.tx)
    /\ LET r == IF c.pending = 0 THEN c ELSE IF got THEN Answer(c) ELSE Read(c)
           s == IF c.tx = 0 THEN r ELSE Sent(r, n)
       IN conn' = [conn EXCEPT ![co] = [s EXCEPT !.ep_wr = (s.tx # 0)]]
    /\ msgs_pending' = [msgs_pending EXCEPT ![t] = IF got THEN @ - 1 ELSE @]
    /\ q' = [q EXCEPT ![t] = IF got /\ c.pending = 1 THEN Append(@, co) ELSE @]
    /\ Handled(co)
    /\ UNCHANGED <<phase, init_count, pc, next_key>>

EventsDone(t) == /\ pc[t] = "poll" /\ evs[t] = {}
                 /\ pc' = [pc EXCEPT ![t] = "send"]
                 /\ UNCHANGED <<phase, init_count, next_key, msgs_pending, q, evs, conn>>

Step(t) == \/ wait_conns(t) \/ LoadWait(t) \/ LoadDone(t) \/ Run(t)
           \/ send_pending(t) \/ Poll(t) \/ EventsDone(t)
           \/ \E co \in Conns(t) : \/ conn_connect(co) \/ poll_conns(co)
                                   \/ LoadRecv(co) \/ LoadSend(co)
                                   \/ \E n \in 0 .. MsgLen : conn_events(co, n)

Next == Phase \/ (\E t \in Threads : Step(t)) \/ (\E co \in AllConns : Deliver(co))

\* Threads and server keep running.
Fairness == /\ WF_vars(Phase)
            /\ \A t \in Threads : WF_vars(Step(t))
            /\ \A co \in AllConns : WF_vars(Deliver(co))
Spec == Init /\ [][Next]_vars /\ Fairness

-----------------------------------------------------------------------------
InFlight(c) == c.tx > 0 \/ c.owed + c.down + c.rx > 0
Running(t) == pc[t] \in {"send", "poll"}

\* Whatever pieces requests and responses travel in: a connection has at most one
\* request outstanding and nothing else under way; while the benchmark runs it is
\* in the queue, once, exactly when it has none, so the assertions of get_request
\* and set_request hold and msgs_pending, which never exceeds the limit, counts
\* the outstanding ones; and no thread runs before all keys have been stored.
BenchSafe ==
    /\ \A co \in AllConns : /\ conn[co].pending \in {0, 1}
                            /\ (conn[co].pending = 1) = InFlight(conn[co])
    /\ \A t \in Threads :
         /\ msgs_pending[t] = Cardinality({co \in Conns(t) : conn[co].pending = 1})
         /\ Running(t) => /\ msgs_pending[t] <= MaxPending
                          /\ \A co \in Conns(t) : (co \in Range(q[t])) = (conn[co].pending = 0)
                          /\ Len(q[t]) = Cardinality(Range(q[t]))
                          /\ \A u \in Threads : Running(u) \/ ~Loading(u)

InUse(co) == Running(co[1]) /\ conn[co].pending = 1

\* Every connection is used again and again, however few requests may be
\* outstanding: no connection is left out of the queue and no answer is missed.
EveryConnUsed == \A co \in AllConns : []<>InUse(co)
==============================================================================
