------------------------------- MODULE Channel -------------------------------
(***************************************************************************)
(* Channel::Send and Channel::Receive (threads/channel.cc) over the two    *)
(* Conditions BloqueanteSend / BloqueanteReceive (threads/condition.cc).   *)
(*                                                                         *)
(* Both calls hold the Acceso lock from entry until they return or wait,   *)
(* so each segment between two waits is one atomic action; the lock       *)
(* itself needs no variable.  Condition::Wait appends a fresh semaphore    *)
(* (initial value 0) to the condition's FIFO, releases the lock and P's    *)
(* it; Signal pops the oldest semaphore and V's it.  A thread has at most  *)
(* one such semaphore, so sem[t] is its value.  A woken thread P's, then   *)
(* re-acquires the lock and re-tests its loop condition (Mesa semantics). *)
(* Messages carry their sender as a tag the code never reads.             *)
(***************************************************************************)
EXTENDS Naturals, Sequences, FiniteSets

CONSTANTS
    Senders,     \* threads calling Send
    Receiver,    \* the channel's owner, the only thread calling Receive
    Msgs,        \* Msgs[s]: the int values sender s may send
    MaxSends     \* Send calls per sender; Receive calls match their total

ASSUME /\ Receiver \notin Senders /\ MaxSends \in Nat
       /\ Msgs \in [Senders -> SUBSET Nat]

Threads == Senders \cup {Receiver}
MaxReceives == MaxSends * Cardinality(Senders)

VARIABLES
    buzon,    \* the mailbox List<int>, with sender tags
    sendCV,   \* BloqueanteSend's queue of sleeping threads
    recvCV,   \* BloqueanteReceive's queue of sleeping threads
    sem,      \* value of each thread's current Wait semaphore
    pc,       \* "Idle", "Sleep" (in P), "Reacq" (woken, re-testing)
    b,        \* Send's local b: the head seen after appending
    calls     \* Send or Receive calls made so far

vars == <<buzon, sendCV, recvCV, sem, pc, b, calls>>

Values == UNION {Msgs[s] : s \in Senders}

Entry == [from : Senders, val : Values]

Init ==
    /\ buzon = <<>>
    /\ sendCV = <<>> /\ recvCV = <<>>
    /\ sem = [t \in Threads |-> 0]
    /\ pc = [t \in Threads |-> "Idle"]
    /\ b = [s \in Senders |-> 0]
    /\ calls = [t \in Threads |-> 0]

\* Fault-injected variant: the sleeper's semaphore is V'ed but not popped.
SignalNoPop(cv, s) ==
    IF cv = <<>> THEN <<cv, s>>
    ELSE <<cv, [s EXCEPT ![Head(cv)] = @ + 1]>>

\* Condition::Signal (condition.cc:60-69) on the queue `cv`: the semaphore
\* of the oldest sleeper is V'ed.  Returns the new <<queue, sem>>.
Signal(cv, s) ==
    IF cv = <<>> THEN <<cv, s>>
    ELSE <<Tail(cv), [s EXCEPT ![Head(cv)] = @ + 1]>>

\* Fault-injected variant: a Send that returns at once.
SendMustWaitNever(q, bs) == FALSE

\* Send's loop condition (channel.cc:49).
SendMustWait(q, bs) == q # <<>> /\ bs = Head(q).val

\* Fault-injected variant: BloqueanteReceive->Signal() (channel.cc:43) left out.
SendNoSignal(s, m) ==
    LET q == Append(buzon, [from |-> s, val |-> m]) IN
    /\ pc[s] = "Idle" /\ calls[s] < MaxSends
    /\ buzon' = q
    /\ b' = [b EXCEPT ![s] = IF Head(q).val # 0 THEN Head(q).val ELSE 0]
    /\ IF SendMustWait(q, b'[s])
       THEN sendCV' = Append(sendCV, s) /\ pc' = [pc EXCEPT ![s] = "Sleep"]
       ELSE UNCHANGED <<sendCV, pc>>
    /\ calls' = [calls EXCEPT ![s] = @ + 1]
    /\ UNCHANGED <<recvCV, sem>>

\* Send: append, Signal BloqueanteReceive, b = Head(), and (the loop test
\* always holds the first time) Wait on BloqueanteSend.
Send(s, m) ==
    LET q   == Append(buzon, [from |-> s, val |-> m])
        sig == Signal(recvCV, sem)
    IN
    /\ pc[s] = "Idle" /\ calls[s] < MaxSends
    /\ buzon' = q
    /\ recvCV' = sig[1] /\ sem' = sig[2]
    /\ b' = [b EXCEPT ![s] = IF Head(q).val # 0 THEN Head(q).val ELSE 0]
    /\ IF SendMustWait(q, b'[s])
       THEN sendCV' = Append(sendCV, s) /\ pc' = [pc EXCEPT ![s] = "Sleep"]
       ELSE UNCHANGED <<sendCV, pc>>
    /\ calls' = [calls EXCEPT ![s] = @ + 1]

\* The P of Condition::Wait returns once the semaphore was V'ed.
Wake(t) ==
    /\ pc[t] = "Sleep" /\ sem[t] > 0
    /\ sem' = [sem EXCEPT ![t] = @ - 1]
    /\ pc' = [pc EXCEPT ![t] = "Reacq"]
    /\ UNCHANGED <<buzon, sendCV, recvCV, b, calls>>

\* Back in Send's loop: wait again, or release Acceso and return.
SendRetest(s) ==
    /\ pc[s] = "Reacq" /\ s \in Senders
    /\ IF SendMustWait(buzon, b[s])
       THEN sendCV' = Append(sendCV, s) /\ pc' = [pc EXCEPT ![s] = "Sleep"]
       ELSE sendCV' = sendCV /\ pc' = [pc EXCEPT ![s] = "Idle"]
    /\ UNCHANGED <<buzon, recvCV, sem, b, calls>>

\* Fault-injected variant: BloqueanteSend->Signal() (channel.cc:75) left out.
ReceiveBodyNoSignal(r) ==
    IF buzon = <<>>
    THEN /\ recvCV' = Append(recvCV, r)
         /\ pc' = [pc EXCEPT ![r] = "Sleep"]
         /\ UNCHANGED <<buzon, sendCV, sem>>
    ELSE /\ buzon' = Tail(buzon)
         /\ pc' = [pc EXCEPT ![r] = "Idle"]
         /\ UNCHANGED <<recvCV, sendCV, sem>>

\* Receive's body once inside the lock: wait while empty; otherwise Pop,
\* Signal BloqueanteSend, release.
ReceiveBody(r) ==
    IF buzon = <<>>
    THEN /\ recvCV' = Append(recvCV, r)
         /\ pc' = [pc EXCEPT ![r] = "Sleep"]
         /\ UNCHANGED <<buzon, sendCV, sem>>
    ELSE LET sig == Signal(sendCV, sem) IN
         /\ buzon' = Tail(buzon)
         /\ sendCV' = sig[1] /\ sem' = sig[2]
         /\ pc' = [pc EXCEPT ![r] = "Idle"]
         /\ UNCHANGED recvCV

Receive(r) ==
    /\ pc[r] = "Idle" /\ r = Receiver
    /\ calls[r] < MaxReceives
    /\ ReceiveBody(r)
    /\ calls' = [calls EXCEPT ![r] = @ + 1]
    /\ UNCHANGED b

ReceiveRetest(r) ==
    /\ pc[r] = "Reacq" /\ r = Receiver
    /\ ReceiveBody(r)
    /\ UNCHANGED <<b, calls>>

-----------------------------------------------------------------------------
\* Every thread has made all its calls and returned from them.
Done == \A t \in Threads : pc[t] = "Idle" /\ calls[t] = IF t = Receiver
                                                       THEN MaxReceives
                                                       ELSE MaxSends

Next ==
    \/ \E s \in Senders : \E m \in Msgs[s] : Send(s, m)
    \/ \E t \in Threads : Wake(t)
    \/ \E s \in Senders : SendRetest(s)
    \/ Receive(Receiver) \/ ReceiveRetest(Receiver)
    \/ Done /\ UNCHANGED vars

\* A V'ed semaphore lets its thread run again, a woken thread gets the lock
\* back (Acceso is free whenever no action is in progress), each sender
\* keeps calling Send until it has made its calls, and the owner keeps
\* calling Receive until it has taken as many messages as are sent.
Fairness ==
    /\ \A t \in Threads : WF_vars(Wake(t))
    /\ \A s \in Senders : WF_vars(\E m \in Msgs[s] : Send(s, m))
    /\ \A s \in Senders : WF_vars(SendRetest(s))
    /\ WF_vars(Receive(Receiver)) /\ WF_vars(ReceiveRetest(Receiver))

Spec == Init /\ [][Next]_vars /\ Fairness

-----------------------------------------------------------------------------
TypeOK ==
    /\ buzon \in Seq(Entry)
    /\ sendCV \in Seq(Senders) /\ recvCV \in Seq({Receiver})
    /\ sem \in [Threads -> 0..1]
    /\ pc \in [Threads -> {"Idle", "Sleep", "Reacq"}]
    /\ b \in [Senders -> Values \cup {0}]
    /\ calls \in [Threads -> Nat]

\* Channel::Send implements the synchronous channel: messages are received
\* in the order sent, and a Send returns only after the Receive that took
\* its own message (not merely one with the same value).
Abstract == INSTANCE SyncChannel WITH
    Msgs <- Values,
    queue <- buzon,
    busy <- [s \in Senders |-> pc[s] # "Idle"]

ImplementsSyncChannel == Abstract!Spec

\* Every Send returns once the owner has received all messages: the Signal
\* of the Receive that took a sender's message reaches that sender, and its
\* re-test of `b == Head()` lets it out.
SendCompletes == \A s \in Senders : (pc[s] # "Idle") ~> (pc[s] = "Idle")

\* Every Receive returns: a Receive that found the mailbox empty is woken by
\* the Signal of the next Send and then finds its message.
ReceiveCompletes == (pc[Receiver] # "Idle") ~> (pc[Receiver] = "Idle")
=============================================================================
