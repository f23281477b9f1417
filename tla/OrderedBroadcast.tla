--------------------------- MODULE OrderedBroadcast ---------------------------
(***************************************************************************)
(* What streaming promises to the sockets of a process, without queues,     *)
(* transactions, sequence numbers, cursors or connections.  A process hears *)
(* what it publishes at once.  It offers some of that to the others, in the *)
(* order of publication; the others hear an offered event at most once, and *)
(* those of one origin in its order, but need not hear it at all.  A        *)
(* process that restarts is a new origin and has heard nothing.             *)
(***************************************************************************)
EXTENDS Naturals, Sequences

CONSTANT Process

VARIABLES
    sent,      \* the number of events, which are numbered as they are published
    life,      \* the starts of every process: its origin is <<process, life>>
    offered,   \* the events offered to other processes: [from, event]
    heard      \* the events every process heard since it started, in order

vars == <<sent, life, offered, heard>>

Init == /\ sent = 0 /\ offered = {}
        /\ life = [p \in Process |-> 0] /\ heard = [p \in Process |-> <<>>]

Hears(p, e) == \E i \in 1..Len(heard[p]) : heard[p][i] = e

Publish(p) ==
    /\ sent' = sent + 1
    /\ heard' = [heard EXCEPT ![p] = Append(@, sent + 1)]
    /\ UNCHANGED <<life, offered>>

\* What is offered was published by this origin, since the others hear only what
\* is offered; it is offered once, and after all that the origin has offered.
Offer(p, e) ==
    /\ Hears(p, e)
    /\ \A o \in offered : o.event # e /\ (o.from = <<p, life[p]>> => o.event < e)
    /\ offered' = offered \cup {[from |-> <<p, life[p]>>, event |-> e]}
    /\ UNCHANGED <<sent, life, heard>>

\* e has not been heard and may come after d.
MayFollow(d, e) ==
    d # e /\ \A o, n \in offered : o.event = d /\ n.event = e /\ o.from = n.from => d < e

\* Some events of other origins arrive together.
Hear(p, events) ==
    /\ \A j \in 1..Len(events) :
          /\ \E o \in offered : o.event = events[j] /\ o.from # <<p, life[p]>>
          /\ \A d \in 1..sent : Hears(p, d) => MayFollow(d, events[j])
          /\ \A i \in 1..(j - 1) : MayFollow(events[i], events[j])
    /\ heard' = [heard EXCEPT ![p] = @ \o events]
    /\ UNCHANGED <<sent, life, offered>>

Restart(p) ==
    /\ life' = [life EXCEPT ![p] = @ + 1] /\ heard' = [heard EXCEPT ![p] = <<>>]
    /\ UNCHANGED <<sent, offered>>

Next == \E p \in Process :
    \/ Publish(p) \/ Restart(p)
    \/ \E e \in 1..sent : Offer(p, e)
    \/ \E n \in 1..sent : \E events \in [1..n -> 1..sent] : Hear(p, events)

Spec == Init /\ [][Next]_vars
=============================================================================
