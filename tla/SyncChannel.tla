----------------------------- MODULE SyncChannel -----------------------------
(***************************************************************************)
(* What a Nachos Channel promises (threads/channel.hh): Send(m) hands m to *)
(* a Receive, in order, and returns only once m has been taken.  A message *)
(* is tagged with its sender so that "its own message" is observable.      *)
(***************************************************************************)
EXTENDS Naturals, Sequences

CONSTANTS Senders, Msgs

VARIABLES queue,   \* messages sent and not yet received, oldest first
          busy     \* busy[s]: s is inside Send

Entry == [from : Senders, val : Msgs]

Init == queue = <<>> /\ busy = [s \in Senders |-> FALSE]

\* Send starts: its message joins the queue.
SendBegin(s, m) ==
    /\ ~busy[s]
    /\ queue' = Append(queue, [from |-> s, val |-> m])
    /\ busy' = [busy EXCEPT ![s] = TRUE]

\* A Receive takes the oldest message.
Take ==
    /\ queue # <<>>
    /\ queue' = Tail(queue)
    /\ UNCHANGED busy

\* Send returns, once no message of its sender is still queued.
SendEnd(s) ==
    /\ busy[s]
    /\ \A i \in 1..Len(queue) : queue[i].from # s
    /\ busy' = [busy EXCEPT ![s] = FALSE]
    /\ UNCHANGED queue

Next == (\E s \in Senders, m \in Msgs : SendBegin(s, m)) \/ Take
        \/ \E s \in Senders : SendEnd(s)

Spec == Init /\ [][Next]_<<queue, busy>>
=============================================================================
