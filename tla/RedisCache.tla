----------------------------- MODULE RedisCache -----------------------------
(***************************************************************************)
(* The indexer's Redis client: commands written to one socket, replies     *)
(* matched to them by their order alone, and the promises of the callers.  *)
(* A reply is two halves, so that a chunk of data may end inside one and   *)
(* may hold several; it is named by the command Redis answered with it,    *)
(* whether it carries a value, nothing or an error.                        *)
(***************************************************************************)
EXTENDS Integers, Sequences, SequencesExt

CONSTANTS
    Commands      \* the calls of get, set, delete and ping, by name

ASSUME CommandsAssumption == Commands \cap {"none", "waiting", "rejected"} = {}

VARIABLES
    socket,       \* whether this.socket is set
    closing,      \* whether close() has been called
    stream,       \* the connection: "up", "down", "errored", "closed"
    pending,      \* this.pending: the calls awaiting a reply, in order
    requests,     \* written to the socket, not yet read by Redis
    unwritten,    \* writes whose callback is going to report an error
    replies,      \* half-replies on their way
    buffer,       \* this.buffer: half-replies received and not parsed
    answer        \* how the promise of each call stands

vars == <<socket, closing, stream, pending, requests, unwritten, replies, buffer, answer>>

Init ==
    /\ socket = TRUE /\ closing = FALSE /\ stream = "up"
    /\ pending = << >> /\ requests = << >> /\ unwritten = << >>
    /\ replies = << >> /\ buffer = << >>
    /\ answer = [c \in Commands |-> "none"]

(* A promise is settled once; settling it again does nothing.              *)
Rejected(cs) ==
    [c \in Commands |-> IF c \in cs /\ answer[c] = "waiting" THEN "rejected" ELSE answer[c]]

----------------------------------------------------------------------------
(* The callers.                                                            *)

Command(c) ==
    /\ answer[c] = "none"
    /\ socket
    /\ answer' = [answer EXCEPT ![c] = "waiting"]
    /\ pending' = Append(pending, c)
    /\ IF stream = "up"
       THEN requests' = Append(requests, c) /\ UNCHANGED unwritten
       ELSE unwritten' = Append(unwritten, c) /\ UNCHANGED requests
    /\ UNCHANGED <<socket, closing, stream, replies, buffer>>

(* There is one connection, opened at start.                               *)
RefuseCommand(c) ==
    /\ answer[c] = "none"
    /\ ~socket
    /\ answer' = [answer EXCEPT ![c] = "rejected"]
    /\ UNCHANGED <<socket, closing, stream, pending, requests, unwritten, replies, buffer>>

Close ==
    /\ socket
    /\ socket' = FALSE
    /\ closing' = TRUE
    /\ UNCHANGED <<stream, pending, requests, unwritten, replies, buffer, answer>>

(* The write callback takes the last call off the queue, whichever it is.  *)
WriteFailed ==
    /\ unwritten # << >>
    /\ answer' = Rejected({Head(unwritten)})
    /\ pending' = IF pending = << >> THEN pending ELSE Front(pending)
    /\ unwritten' = Tail(unwritten)
    /\ UNCHANGED <<socket, closing, stream, requests, replies, buffer>>

----------------------------------------------------------------------------
(* Redis, and what the socket reports.                                     *)

Handle ==
    /\ stream = "up"
    /\ requests # << >>
    /\ replies' = replies \o <<Head(requests), Head(requests)>>
    /\ requests' = Tail(requests)
    /\ UNCHANGED <<socket, closing, stream, pending, unwritten, buffer, answer>>

(* How many replies of a buffer are complete: one is parsed only when the  *)
(* rest of it is there.                                                    *)
CompleteOnHeader(received) == (Len(received) + 1) \div 2
Complete(received) == Len(received) \div 2

(* The first replies settle the first calls.                               *)
Settled(received) ==
    [c \in Commands |->
        IF \E i \in 1..Complete(received) : i \in DOMAIN pending /\ pending[i] = c
                                             /\ answer[c] = "waiting"
        THEN received[2 * (CHOOSE i \in 1..Complete(received) : pending[i] = c) - 1]
        ELSE answer[c]]

OnData ==
    /\ \E n \in 1..Len(replies) :
         LET received == buffer \o SubSeq(replies, 1, n)
             k        == Complete(received)
         IN  /\ answer' = Settled(received)
             /\ pending' = SubSeq(pending, k + 1, Len(pending))
             /\ buffer' = SubSeq(received, 2 * k + 1, Len(received))
             /\ replies' = SubSeq(replies, n + 1, Len(replies))
    /\ UNCHANGED <<socket, closing, stream, requests, unwritten>>

(* The connection is lost, and with it what was on its way; of what was    *)
(* written, some tail had not left the process.                            *)
Drop ==
    /\ stream = "up"
    /\ stream' = "down"
    /\ \E n \in 0..Len(requests) : unwritten' = SubSeq(requests, n + 1, Len(requests))
    /\ requests' = << >> /\ replies' = << >>
    /\ UNCHANGED <<socket, closing, pending, buffer, answer>>

PendingKept == [answer |-> answer, pending |-> pending]
FailAll == [answer |-> Rejected(Range(pending)), pending |-> << >>]

OnError ==
    /\ stream = "down"
    /\ stream' = "errored"
    /\ answer' = FailAll.answer /\ pending' = FailAll.pending
    /\ UNCHANGED <<socket, closing, requests, unwritten, replies, buffer>>

OnClose ==
    /\ stream \in {"down", "errored"}
    /\ stream' = "closed"
    /\ socket' = FALSE
    /\ answer' = FailAll.answer /\ pending' = FailAll.pending
    /\ UNCHANGED <<closing, requests, unwritten, replies, buffer>>

----------------------------------------------------------------------------
Call == \E c \in Commands : Command(c) \/ RefuseCommand(c)

Next ==
    \/ Call \/ Close \/ WriteFailed
    \/ Handle \/ OnData \/ Drop \/ OnError \/ OnClose

Spec == Init /\ [][Next]_vars

(* Redis answers what it reads, and the event loop delivers what arrives;  *)
(* a lost connection is reported.  (Nothing here waits for a slow Redis:   *)
(* the client sets no timeout.)                                            *)
FairSpec ==
    /\ Spec
    /\ WF_vars(Handle) /\ WF_vars(OnData) /\ WF_vars(WriteFailed) /\ WF_vars(OnClose)

----------------------------------------------------------------------------
(* Nobody gets the answer to somebody else's command: the n-th reply is    *)
(* the n-th call's, although chunks end anywhere, calls are rejected by    *)
(* failed writes from the other end of the queue, and the connection dies  *)
(* with replies half read.                                                 *)
EachOwnReply == \A c \in Commands : answer[c] \in Commands => answer[c] = c

(* No call waits for ever, however the connection ends.                    *)
EveryCallSettles == \A c \in Commands : answer[c] = "waiting" ~> answer[c] # "waiting"
=============================================================================
