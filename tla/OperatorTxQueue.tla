---------------------------- MODULE OperatorTxQueue ----------------------------
(***************************************************************************)
(* The queue in front of the operator wallet (config/somnia.ts,            *)
(* executeOperatorTx): calls run one after the other, each is raced        *)
(* against a time-out, and nonce errors are retried after a pause.         *)
(*                                                                         *)
(* A promise cannot be cancelled: an operation that lost its race goes on, *)
(* and may still send its transaction.                                     *)
(***************************************************************************)
EXTENDS Integers, Sequences, FiniteSets

CONSTANTS
    Calls,       \* calls of executeOperatorTx
    MaxRetries,  \* maxRetries
    NoCall         \* no call is being executed

VARIABLES
    txQueue,  \* the chain of promises: calls that wait for their turn
    current,  \* the call whose turn it is
    call,     \* per call: where it is, its attempts and how it was answered
    running,  \* operations that have been started and have not ended
    sentTxs   \* history: how many transactions each call has sent

queueVars == <<txQueue, current, call, running, sentTxs>>

Attempts   == 1..MaxRetries
Operations == [call : Calls, attempt : Attempts, sent : BOOLEAN]
Answers    == {"done", "failed", "timedOut"}

TypeOK ==
    /\ txQueue \in Seq(Calls)
    /\ current \in Calls \cup {NoCall}
    /\ call \in [Calls -> [pc : {"idle", "queued", "racing", "pausing"} \cup Answers,
                           attempts : 0..MaxRetries]]
    /\ running \subseteq Operations
    /\ sentTxs \in [Calls -> 0..MaxRetries]

Answered(c) == call[c].pc \in Answers

Init ==
    /\ txQueue = <<>>
    /\ current = NoCall
    /\ call = [c \in Calls |-> [pc |-> "idle", attempts |-> 0]]
    /\ running = {}
    /\ sentTxs = [c \in Calls |-> 0]

(* txQueue.then(execute, execute): behind whatever is already waiting.     *)
Enqueue(c) ==
    /\ call[c].pc = "idle"
    /\ call' = [call EXCEPT ![c].pc = "queued"]
    /\ txQueue' = Append(txQueue, c)
    /\ UNCHANGED <<current, running, sentTxs>>

(* operation() is called and the timer set.                                *)
Race(c) ==
    LET attempt == call[c].attempts + 1 IN
    /\ call' = [call EXCEPT ![c] = [pc |-> "racing", attempts |-> attempt]]
    /\ running' = running \cup {[call |-> c, attempt |-> attempt, sent |-> FALSE]}

(* A mutation: txQueue.then(execute) alone, so that a call's failure is    *)
(* everybody's.                                                            *)
StartAfterSuccess ==
    /\ current = NoCall
    /\ txQueue # <<>>
    /\ \A c \in Calls : call[c].pc \notin {"failed", "timedOut"}
    /\ current' = Head(txQueue)
    /\ txQueue' = Tail(txQueue)
    /\ Race(Head(txQueue))
    /\ UNCHANGED sentTxs

(* The next call's turn comes whether its predecessor succeeded or not.    *)
Start ==
    /\ current = NoCall
    /\ txQueue # <<>>
    /\ current' = Head(txQueue)
    /\ txQueue' = Tail(txQueue)
    /\ Race(Head(txQueue))
    /\ UNCHANGED sentTxs

(* An operation gets to the point of sending its transaction, whether or   *)
(* not anybody still waits for it.                                         *)
Send(op) ==
    /\ ~op.sent
    /\ running' = (running \ {op}) \cup {[op EXCEPT !.sent = TRUE]}
    /\ sentTxs' = [sentTxs EXCEPT ![op.call] = @ + 1]
    /\ UNCHANGED <<txQueue, current, call>>

(* The promise of an operation settles.  Only the one being raced is heard.*)
Awaited(op) == /\ current = op.call
               /\ call[op.call].pc = "racing"
               /\ call[op.call].attempts = op.attempt

Answer(c, answer) ==
    /\ call' = [call EXCEPT ![c].pc = answer]
    /\ current' = NoCall

Unheard(op) == ~Awaited(op) /\ UNCHANGED <<call, current>>

Succeed(op) ==
    /\ op.sent
    /\ running' = running \ {op}
    /\ Unheard(op) \/ (Awaited(op) /\ Answer(op.call, "done"))
    /\ UNCHANGED <<txQueue, sentTxs>>

(* Mutations: one attempt too many, and every nonce error taken for        *)
(* "already known", hence for success.                                     *)
RetryOnceMore(op) ==
    /\ running' = running \ {op}
    /\ \/ Unheard(op)
       \/ /\ Awaited(op)
          /\ op.attempt <= MaxRetries
          /\ call' = [call EXCEPT ![op.call].pc = "pausing"]
          /\ UNCHANGED current
    /\ UNCHANGED <<txQueue, sentTxs>>

TakeForSuccess(op) ==
    /\ running' = running \ {op}
    /\ Unheard(op) \/ (Awaited(op) /\ Answer(op.call, "done"))
    /\ UNCHANGED <<txQueue, sentTxs>>

(* "nonce too low", "already known" and the like: retried if attempts are  *)
(* left.  "already known" is the answer to a transaction that was sent.    *)
RejectNonce(op) ==
    /\ running' = running \ {op}
    /\ \/ Unheard(op)
       \/ /\ Awaited(op)
          /\ op.attempt < MaxRetries
          /\ call' = [call EXCEPT ![op.call].pc = "pausing"]
          /\ UNCHANGED current
       \/ Awaited(op) /\ op.attempt = MaxRetries /\ Answer(op.call, "failed")
    /\ UNCHANGED <<txQueue, sentTxs>>

(* Any other error goes to the caller.                                     *)
Reject(op) ==
    /\ running' = running \ {op}
    /\ Unheard(op) \/ (Awaited(op) /\ Answer(op.call, "failed"))
    /\ UNCHANGED <<txQueue, sentTxs>>

(* A mutation: a time-out is retried like a nonce error.                   *)
RetryAfterTimeOut ==
    /\ current # NoCall
    /\ call[current].pc = "racing"
    /\ call[current].attempts < MaxRetries
    /\ call' = [call EXCEPT ![current].pc = "pausing"]
    /\ UNCHANGED <<txQueue, current, running, sentTxs>>

(* The timer wins the race: the caller is told, the operation goes on.     *)
TimeOut ==
    /\ current # NoCall
    /\ call[current].pc = "racing"
    /\ Answer(current, "timedOut")
    /\ UNCHANGED <<txQueue, running, sentTxs>>

(* 400 ms times the number of attempts later.                              *)
Retry ==
    /\ current # NoCall
    /\ call[current].pc = "pausing"
    /\ Race(current)
    /\ UNCHANGED <<txQueue, current, sentTxs>>

Next ==
    \/ \E c \in Calls : Enqueue(c)
    \/ Start
    \/ \E op \in running : Send(op) \/ Succeed(op) \/ RejectNonce(op) \/ Reject(op)
    \/ TimeOut
    \/ Retry

(* Timers fire and the microtask queue runs; the network owes nothing.     *)
Fairness == WF_queueVars(Start) /\ WF_queueVars(TimeOut) /\ WF_queueVars(Retry)

Spec == Init /\ [][Next]_queueVars /\ Fairness
-----------------------------------------------------------------------------
(* Properties                                                              *)

(* Every call is answered, even if no operation ever settles and whatever  *)
(* became of the calls before it.                                          *)
EveryCallAnswered == \A c \in Calls : call[c].pc = "queued" ~> Answered(c)

(* The wallet belongs to the call whose turn it is: nothing else is still  *)
(* running, except operations of callers that were told of a time-out.     *)
(* So a caller that got any other answer may act on it: its call will send *)
(* nothing any more.                                                       *)
OnlyTimeOutsLinger ==
    \A op \in running : Awaited(op) \/ call[op.call].pc = "timedOut"

(* A call answered with success has sent its transaction, and no call, not *)
(* even one that times out and lingers, sends more often than it was tried.*)
AnswersAreHonest ==
    \A c \in Calls : /\ call[c].pc = "done" => sentTxs[c] > 0
                     /\ sentTxs[c] <= call[c].attempts

(* "Serializes on-chain write operations" (config/somnia.ts:154): no two   *)
(* operations of the wallet run at the same time.                          *)
OperationsAreSerial == Cardinality(running) <= 1
=============================================================================
