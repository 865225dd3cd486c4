----------------------------- MODULE LogStream -----------------------------
(***************************************************************************)
(* The log as web pages see it (network/log_stream.c): every task that     *)
(* logs writes into a ring, a task sends what is in the ring to the        *)
(* sockets that were registered by the web server's task.  Two mutexes,    *)
(* one for the ring and one for the table of clients.  One byte of the     *)
(* ring stands for one line.                                               *)
(***************************************************************************)
EXTENDS Naturals, Sequences, FiniteSets

CONSTANTS LOG_RING_SIZE, MAX_WS_CLIENTS, MAX_SEND_CHUNK,
          Fds,         \* socket numbers: a closed one is used again
          MaxLines, MaxOpens

ASSUME LogAssumption ==
    /\ LOG_RING_SIZE \in Nat \ {0} /\ MAX_WS_CLIENTS \in Nat \ {0} /\ MAX_SEND_CHUNK \in Nat \ {0}
    /\ IsFiniteSet(Fds) /\ MaxLines \in Nat /\ MaxOpens \in Nat

VARIABLES ring, head, tail,     \* s_ring, s_head, s_tail
          lastLine, taken,      \* the last line written, the last one read (history)
          socket,               \* per number: closed, or what it serves
          clients,              \* s_clients, s_client_count
          broadcast, frame,     \* where the task is and what it sends
          round, served,        \* the table as the round began, who got the frame (history)
          opens

logVars == <<ring, head, tail, lastLine, taken, socket, clients, broadcast, frame, round,
             served, opens>>
ringVarsOfLog == <<ring, head, tail, lastLine, taken>>
roundVars == <<broadcast, frame, round, served>>

NextPos(p) == (p + 1) % LOG_RING_SIZE
Used == (head + LOG_RING_SIZE - tail) % LOG_RING_SIZE
InRing == [k \in 1..Used |-> ring[(tail + k - 1) % LOG_RING_SIZE]]

LogInit ==
    /\ ring = [p \in 0..(LOG_RING_SIZE - 1) |-> 0] /\ head = 0 /\ tail = 0
    /\ lastLine = 0 /\ taken = 0
    /\ socket = [f \in Fds |-> "closed"] /\ clients = <<>>
    /\ broadcast = "sleeps" /\ frame = <<>> /\ round = <<>> /\ served = <<>>
    /\ opens = 0

(* log_vprintf_hook and ring_write: the oldest is dropped to make room.    *)
(* (If another task holds the ring the line is not written at all: no      *)
(* step.)                                                                  *)
ring_write ==
    /\ lastLine < MaxLines /\ lastLine' = lastLine + 1
    /\ ring' = [ring EXCEPT ![head] = lastLine'] /\ head' = NextPos(head)
    /\ tail' = IF NextPos(head) = tail THEN NextPos(tail) ELSE tail

log_vprintf_hook == ring_write /\ UNCHANGED <<taken, socket, clients, roundVars, opens>>

(* External: a browser opens a connection, for a page or for the log, or   *)
(* closes it.                                                              *)
Open(f) ==
    /\ socket[f] = "closed" /\ opens < MaxOpens /\ opens' = opens + 1
    /\ \E use \in {"page", "log"} : socket' = [socket EXCEPT ![f] = use]
    /\ UNCHANGED <<ringVarsOfLog, clients, roundVars>>

Close(f) ==
    /\ socket[f] # "closed" /\ socket' = [socket EXCEPT ![f] = "closed"]
    /\ UNCHANGED <<ringVarsOfLog, clients, roundVars, opens>>

(* ws_log_handler: the socket goes into the table if there is room and the *)
(* table is free in time; a refused connection is closed.                  *)
ws_log_handler(f) ==
    /\ socket[f] = "log" /\ broadcast # "sends"
    /\ IF Len(clients) < MAX_WS_CLIENTS
       THEN /\ clients' = Append(clients, f)
            /\ socket' = [socket EXCEPT ![f] = "registered"]
       ELSE clients' = clients /\ socket' = [socket EXCEPT ![f] = "closed"]
    /\ UNCHANGED <<ringVarsOfLog, roundVars, opens>>

RefusedInTime(f) ==
    /\ socket[f] = "log" /\ broadcast = "sends"
    /\ socket' = [socket EXCEPT ![f] = "closed"]
    /\ UNCHANGED <<ringVarsOfLog, clients, roundVars, opens>>

(* broadcast_task wakes: without clients it leaves the ring alone, else it *)
(* takes what fits a frame.                                                *)
ring_read ==
    /\ broadcast = "sleeps" /\ clients # <<>> /\ Used > 0
    /\ LET n == IF Used < MAX_SEND_CHUNK THEN Used ELSE MAX_SEND_CHUNK IN
       /\ frame' = SubSeq(InRing, 1, n) /\ taken' = InRing[n]
       /\ tail' = (tail + n) % LOG_RING_SIZE
    /\ broadcast' = "has"
    /\ UNCHANGED <<ring, head, lastLine, socket, clients, round, served, opens>>

(* Then it takes the table, or gives the frame up after 100 ms.            *)
TakeTable ==
    /\ broadcast = "has"
    /\ \/ broadcast' = "sends" /\ round' = clients /\ served' = <<>>
       \/ broadcast' = "sleeps" /\ UNCHANGED <<round, served>>
    /\ UNCHANGED <<ringVarsOfLog, frame, socket, clients, opens>>

(* remove_client: the last one takes the place of the one removed.         *)
remove_client(i) ==
    LET n == Len(clients) IN
    [k \in 1..(n - 1) |-> IF k = i THEN clients[n] ELSE clients[k]]

(* A client to whom the send fails is removed: to a closed socket it does, *)
(* to an open one it may.                                                  *)
AfterSend(i) ==
    \/ socket[clients[i]] # "closed" /\ UNCHANGED clients
    \/ clients' = remove_client(i)

(* A mutant: the table is walked upwards.                                  *)
SendUpwards ==
    /\ broadcast = "sends"
    /\ LET i == Len(served) + 1 IN
       /\ i <= Len(clients)
       /\ served' = Append(served, clients[i])
       /\ AfterSend(i)
       /\ broadcast' = IF i >= Len(clients') THEN "sleeps" ELSE "sends"
    /\ UNCHANGED <<ringVarsOfLog, frame, socket, round, opens>>

(* The walk, downwards.  A socket number in use again takes the frame,     *)
(* whatever it serves now.                                                 *)
SendToNext ==
    /\ broadcast = "sends"
    /\ LET i == Len(round) - Len(served) IN
       /\ served' = Append(served, clients[i])
       /\ AfterSend(i)
       /\ broadcast' = IF i = 1 THEN "sleeps" ELSE "sends"
    /\ UNCHANGED <<ringVarsOfLog, frame, socket, round, opens>>

LogNext ==
    \/ log_vprintf_hook
    \/ \E f \in Fds : Open(f) \/ Close(f) \/ ws_log_handler(f) \/ RefusedInTime(f)
    \/ ring_read \/ TakeTable \/ SendToNext

LogTypeOK ==
    /\ head \in 0..(LOG_RING_SIZE - 1) /\ tail \in 0..(LOG_RING_SIZE - 1)
    /\ lastLine \in 0..MaxLines /\ Len(clients) <= MAX_WS_CLIENTS
    /\ socket \in [Fds -> {"closed", "page", "log", "registered"}]
    /\ broadcast \in {"sleeps", "has", "sends"} /\ opens \in 0..MaxOpens

(* What is in the ring is always the latest that was written, in order and *)
(* without a gap, and a line that was not sent is only missing when the    *)
(* ring is full (ring_write, ring_read).                                   *)
NewestKept ==
    /\ \A k \in 1..Used : InRing[k] = lastLine - Used + k
    /\ lastLine - Used > taken => Used = LOG_RING_SIZE - 1

Times(seq, f) == Cardinality({i \in 1..Len(seq) : seq[i] = f})

(* A frame is sent to every client of the table once, whichever of them    *)
(* fail and are removed while the table is walked (broadcast_task).        *)
ServedOnce ==
    \A f \in Fds : IF broadcast = "sleeps" /\ served # <<>>
                  THEN Times(served, f) = Times(round, f)
                  ELSE Times(served, f) <= Times(round, f)

(* Seen, not so: the log goes only to those who asked for it, and once.    *)
OnlyListeners ==
    /\ \A i \in 1..Len(clients) : socket[clients[i]] \in {"registered", "closed"}
    /\ \A i, j \in 1..Len(clients) : clients[i] = clients[j] => i = j
=============================================================================
