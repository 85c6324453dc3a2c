------------------------------ MODULE Delivery ------------------------------
(***************************************************************************)
(* TelegramSender (notification_service.py), through which every call of   *)
(* the Bot API goes: a send is tried again after a time-out, a network     *)
(* error (python-telegram-bot counts BadRequest among them) or flood       *)
(* control, and given up after max_retries of them; any other refusal is   *)
(* raised at once.  A send that timed out may have come.                   *)
(*                                                                         *)
(* The token buckets only delay; Telegram is external: what comes of an    *)
(* attempt is its choice.                                                  *)
(***************************************************************************)
EXTENDS Integers

CONSTANTS
    Senders,      \* who waits for a send: each awaits one at a time
    Messages,     \* what is sent
    MaxRetries,   \* max_retries
    MaxFaults     \* bound: attempts that fail, and crashes

ASSUME DeliverySizes == MaxRetries \in Nat /\ MaxFaults \in Nat

VARIABLES
    post,     \* the send each sender awaits
    faults    \* attempts that failed, and crashes

NoPost == [state |-> "none"]
Posts == [state : {"trying", "sent", "failed"}, msg : Messages,
          attempt : 0 .. MaxRetries,
          copies : 0 .. (MaxRetries + 1)]    \* history: how often it has come

DeliveryInit == post = [s \in Senders |-> NoPost] /\ faults = 0

Free(s) == post[s] = NoPost
Is(s, state) == post[s].state = state

Submit(s, m) ==
    /\ Free(s)
    /\ post' = [post EXCEPT ![s] = [state |-> "trying", msg |-> m, attempt |-> 0, copies |-> 0]]

Returns(s) ==
    /\ Is(s, "trying")
    /\ post' = [post EXCEPT ![s].state = "sent", ![s].copies = @ + 1]
    /\ UNCHANGED faults

Fault == faults < MaxFaults /\ faults' = faults + 1

\* TimedOut and NetworkError, after which the message may have come, and RetryAfter,
\* after which it has not
TryAgain(s, came) ==
    /\ Is(s, "trying") /\ Fault
    /\ post' = [post EXCEPT ![s].state = IF post[s].attempt = MaxRetries THEN "failed" ELSE "trying",
                            ![s].attempt = IF @ = MaxRetries THEN @ ELSE @ + 1,
                            ![s].copies = @ + came]

\* Forbidden, InvalidToken and the like
Refused(s) ==
    /\ Is(s, "trying") /\ Fault
    /\ post' = [post EXCEPT ![s].state = "failed"]

\* the caller goes on, with the result or the exception
Resume(s) == post' = [post EXCEPT ![s] = NoPost]
=============================================================================
