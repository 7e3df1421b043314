----------------------------- MODULE RpcClient -----------------------------
(***************************************************************************)
(* The indexer's client of a Stellar RPC node (the StellarRpc class): every*)
(* call waits for its slot, sends a request under a timeout, and tries     *)
(* again after a random pause when the failure may pass.  The calls of     *)
(* several callers interleave at each await and share the slots.           *)
(*                                                                         *)
(* Time is the milliseconds of the event loop, counted in coarser units.   *)
(* A timer never fires early, and at most Lateness after it is due.        *)
(***************************************************************************)
EXTENDS Integers, Sequences, FiniteSets

CONSTANTS
    Callers,                      \* who calls, each one call at a time
    MaxAttempts,                  \* maxAttempts
    InitialBackoff, MaxBackoff,   \* initialBackoffMs, maxBackoffMs
    RequestTimeout,               \* requestTimeoutMs
    MinInterval,                  \* minIntervalMs, of a client that throttles
    Lateness,                     \* bound on how late a timer fires
    MaxCalls,                     \* bound on the calls begun
    MaxPause                      \* bound on the time nothing is asked for

ASSUME RpcClientAssumption ==
    /\ IsFiniteSet(Callers) /\ Callers # {}
    /\ MaxAttempts \in Nat \ {0}
    /\ InitialBackoff \in Nat \ {0} /\ MaxBackoff \in Nat \ {0}
    /\ RequestTimeout \in Nat \ {0} /\ MinInterval \in Nat \ {0}
    /\ Lateness \in Nat /\ MaxCalls \in Nat /\ MaxPause \in Nat

VARIABLES
    now,          \* Date.now()
    nextSlotAt,   \* when the next request may be sent
    call,         \* the call of each caller: where it is, and its locals
    made,         \* calls begun
    sent          \* when requests were sent, in order

vars == <<now, nextSlotAt, call, made, sent>>

LesserOf(a, b)  == IF a <= b THEN a ELSE b
GreaterOf(a, b) == IF a >= b THEN a ELSE b

(* due: when the timer of the call fires.  readAt: the time its throttle() *)
(* has read.  heard: what became of each of its requests.                  *)
NoCall == [pc |-> "idle", outcome |-> "none", attempt |-> 0, backoff |-> InitialBackoff,
           due |-> 0, readAt |-> 0, begun |-> 0, heard |-> <<>>]

Init ==
    /\ now = 0 /\ nextSlotAt = 0
    /\ call = [c \in Callers |-> NoCall]
    /\ made = 0
    /\ sent = <<>>

----------------------------------------------------------------------------
(* The steps of a call, from one await to the next.                        *)

(* The time is the one read before the sleep, the slot the one after it;   *)
(* not counted from when it asked, whoever has been served since; slots    *)
(* that nobody has taken are lost.                                         *)
ReservedFromRead(readAt) == readAt + MinInterval
Reserved(readAt) == GreaterOf(readAt, nextSlotAt) + MinInterval

Send(c, r) ==
    /\ nextSlotAt' = Reserved(r.readAt)
    /\ sent' = Append(sent, now)
    /\ call' = [call EXCEPT ![c] = [r EXCEPT !.pc = "request", !.readAt = 0,
                                       !.due = now + RequestTimeout]]

(* The head of the loop: the next attempt, from its throttle() on.         *)
Attempt(c, r) ==
    LET next == [r EXCEPT !.attempt = @ + 1, !.readAt = now]
    IN  IF nextSlotAt <= now
        THEN Send(c, next)
        ELSE /\ call' = [call EXCEPT ![c] = [next EXCEPT !.pc = "slot", !.due = nextSlotAt]]
             /\ UNCHANGED <<nextSlotAt, sent>>

(* What remains of a call is what it was told.                             *)
Settle(c, outcome, heard) ==
    /\ call' = [call EXCEPT ![c] = [NoCall EXCEPT !.outcome = outcome, !.heard = heard]]
    /\ UNCHANGED <<nextSlotAt, sent>>

(* Full jitter: any pause below the present backoff.                       *)
RetryOrGiveUp(c, heard) ==
    LET r == call[c]
    IN  IF r.attempt < MaxAttempts
        THEN /\ \E delay \in 0 .. LesserOf(r.backoff, MaxBackoff) - 1 :
                  call' = [call EXCEPT ![c] =
                              [r EXCEPT !.pc = "backoff", !.due = now + delay, !.heard = heard,
                                        !.backoff = LesserOf(2 * @, MaxBackoff)]]
             /\ UNCHANGED <<nextSlotAt, sent>>
        ELSE Settle(c, "unavailable", heard)

(* Which failures end the call; the try block's own throw passes here too. *)
FinalIfProtocol(reason) == reason = "error"
Final(reason) == reason \in {"error", "refused"}

Failed(c, reason) ==
    LET heard == Append(call[c].heard, reason)
    IN  IF Final(reason)
        THEN Settle(c, IF reason = "error" THEN "protocol" ELSE "unavailable", heard)
        ELSE RetryOrGiveUp(c, heard)

----------------------------------------------------------------------------
Call(c) ==
    /\ call[c].pc = "idle"
    /\ made < MaxCalls
    /\ made' = made + 1
    /\ Attempt(c, [NoCall EXCEPT !.begun = now])
    /\ UNCHANGED now

WakeInSlot(c) ==
    /\ call[c].pc = "slot" /\ call[c].due <= now
    /\ Send(c, call[c])
    /\ UNCHANGED <<now, made>>

WakeToRetry(c) ==
    /\ call[c].pc = "backoff" /\ call[c].due <= now
    /\ Attempt(c, call[c])
    /\ UNCHANGED <<now, made>>

(* The headers of a response: a body to read, a status that may pass       *)
(* (RETRYABLE_HTTP), or one that will not.  A body is the node's result, an*)
(* error of the node's, or not JSON.  The timer runs on through it.        *)
BodyUntimed(r) == [r EXCEPT !.pc = "body", !.due = now + 1000]
Body(r) == [r EXCEPT !.pc = "body"]

Respond(c) ==
    /\ call[c].pc = "request"
    /\ \/ call' = [call EXCEPT ![c] = Body(@)] /\ UNCHANGED <<nextSlotAt, sent>>
       \/ Failed(c, "passing")
       \/ Failed(c, "refused")
    /\ UNCHANGED <<now, made>>

ReadBody(c) ==
    /\ call[c].pc = "body"
    /\ \/ Settle(c, "result", Append(call[c].heard, "result"))
       \/ Failed(c, "error")
       \/ Failed(c, "passing")
    /\ UNCHANGED <<now, made>>

(* The request fails, at either stage, or the timer aborts it.             *)
LoseRequest(c) ==
    /\ call[c].pc \in {"request", "body"}
    /\ Failed(c, "passing")
    /\ UNCHANGED <<now, made>>

TimeOut(c) ==
    /\ call[c].pc \in {"request", "body"} /\ call[c].due <= now
    /\ Failed(c, "passing")
    /\ UNCHANGED <<now, made>>

Busy == {c \in Callers : call[c].pc # "idle"}

Tick ==
    /\ \A c \in Busy : now < call[c].due + Lateness
    /\ Busy = {} => now < nextSlotAt + MaxPause
    /\ now' = now + 1
    /\ UNCHANGED <<nextSlotAt, call, made, sent>>

Next ==
    \/ \E c \in Callers :
          \/ Call(c) \/ WakeInSlot(c) \/ WakeToRetry(c)
          \/ Respond(c) \/ ReadBody(c) \/ LoseRequest(c) \/ TimeOut(c)
    \/ Tick

Spec == Init /\ [][Next]_vars

----------------------------------------------------------------------------
(* The node is never asked faster than the client promises: any stretch of *)
(* requests is spaced by the interval but for one request of each caller,  *)
(* however attempts and pauses interleave.  Only when timers can be later  *)
(* than the interval may those that overslept go at once, once more.       *)
(* (throttle: callers that sleep towards the same slot all take it.)       *)
Overslept == IF Lateness <= MinInterval THEN 0 ELSE Cardinality(Callers) - 1

RequestsSpaced ==
    \A i, j \in DOMAIN sent :
        i < j => sent[j] - sent[i] >= (j - i - Cardinality(Callers) - Overslept) * MinInterval

(* How long a call takes at most, whatever the node does, slots of the     *)
(* other callers included: what the pipeline's progress rests on.          *)
(* (call: the timer covers the body, the pauses are capped.)               *)
LongestAttempt == Cardinality(Callers) * MinInterval + RequestTimeout + 2 * Lateness
LongestCall    == MaxAttempts * LongestAttempt + (MaxAttempts - 1) * (MaxBackoff - 1 + Lateness)
CallsBounded   == \A c \in Busy : now - call[c].begun <= LongestCall

(* A call ends with the last thing it heard, and nothing is asked again    *)
(* after an answer: all it heard before may pass, and it is given up as    *)
(* unavailable at a refusal or when the attempts are used up, no sooner.   *)
(* (call: its catch block sees the throws of its own try block.)           *)
OneAnswer ==
    \A c \in Callers :
        LET heard == call[c].heard
            last  == heard[Len(heard)]
        IN  /\ \A i \in 1 .. Len(heard) - 1 : heard[i] = "passing"
            /\ Len(heard) <= MaxAttempts
            /\ call[c].pc # "idle" => heard = <<>> \/ last = "passing"
            /\ call[c].outcome = "result"   => last = "result"
            /\ call[c].outcome = "protocol" => last = "error"
            /\ call[c].outcome = "unavailable" =>
                  last = "refused" \/ (last = "passing" /\ Len(heard) = MaxAttempts)
=============================================================================
