------------------------------ MODULE LiveTail ------------------------------
(***************************************************************************)
(* What the live tail promises each subscriber, whatever the threads do:   *)
(* every row it is offered is decided about.  A row its filter wants is    *)
(* accepted, in increasing sequence order, into a channel of bounded size, *)
(* or turned away, only when that channel is full and never uncounted;     *)
(* a row is passed over only if the filter does not want it or the         *)
(* subscriber has gone.  Accepted rows reach the client in frames, each    *)
(* with the whole gap there is while the subscriber is registered.         *)
(* LogHub implements it (LogHub!TailSpec) as long as nobody resumes a      *)
(* paused subscription and the store is not closed under a publisher.      *)
(***************************************************************************)
EXTENDS Integers, Sequences

CONSTANTS
  Subs,       \* subscriptions
  Seqs,       \* sequence numbers a row can have
  ChanCap,    \* rows the channel of a subscription holds
  BatchSize   \* rows its pump holds on top of them

VARIABLES
  offered,    \* [Subs -> SUBSET Seqs]  the row the publisher holds out
  wanted,     \* [Subs -> SUBSET Seqs]  that row, if the filter of the moment accepts it
  accepted,   \* [Subs -> Seq(Nat)]     every row ever queued, oldest first
  taken,      \* [Subs -> Nat]          how many of them have left the channel
  shown,      \* [Subs -> Nat]          how many of them the client was sent
  missed,     \* [Subs -> Nat]          rows turned away and not yet announced
  announced,  \* [Subs -> Nat]          rows announced as a gap
  registered, \* SUBSET Subs            subscriptions the publisher serves
  left        \* SUBSET Subs            subscriptions that were cancelled

queues == <<accepted, taken, shown>>
gaps   == <<missed, announced>>
who    == <<registered, left>>
vars   == <<offered, wanted, queues, gaps, who>>

Full(s) == Len(accepted[s]) - taken[s] >= ChanCap

Init ==
  /\ offered   = [s \in Subs |-> {}]
  /\ wanted \in [Subs -> SUBSET Seqs]
  /\ accepted  = [s \in Subs |-> << >>]
  /\ taken     = [s \in Subs |-> 0]
  /\ shown     = [s \in Subs |-> 0]
  /\ missed    = [s \in Subs |-> 0]
  /\ announced = [s \in Subs |-> 0]
  /\ registered = {} /\ left = {}

Offer(s, seq) ==
  /\ s \notin left /\ offered[s] = {}
  /\ offered' = [offered EXCEPT ![s] = {seq}]
  /\ UNCHANGED <<queues, gaps, who>>

\* The three ways an offer ends.
Decided(s) == offered' = [offered EXCEPT ![s] = {}]

Accept(s, seq) ==
  /\ seq \in offered[s] \intersect wanted[s] /\ ~Full(s)
  /\ \A i \in 1..Len(accepted[s]) : accepted[s][i] < seq
  /\ Decided(s)
  /\ accepted' = [accepted EXCEPT ![s] = Append(@, seq)]
  /\ UNCHANGED <<taken, shown, gaps, who>>

Refuse(s, seq) ==
  /\ seq \in offered[s] \intersect wanted[s] /\ Full(s) /\ s \notin left
  /\ Decided(s)
  /\ missed' = [missed EXCEPT ![s] = @ + 1]
  /\ UNCHANGED <<queues, announced, who>>

PassOver(s, seq) ==
  /\ seq \in offered[s] /\ (seq \notin wanted[s] \/ s \in left)
  /\ Decided(s)
  /\ UNCHANGED <<queues, gaps, who>>

Take(s) ==
  /\ taken[s] < Len(accepted[s]) /\ taken[s] - shown[s] < BatchSize
  /\ taken' = [taken EXCEPT ![s] = @ + 1]
  /\ UNCHANGED <<offered, accepted, shown, gaps, who>>

\* A frame carries what was taken and the gap so far; the gap of a subscription
\* that is looked up in vain stays unannounced.
Show(s) ==
  /\ shown' = [shown EXCEPT ![s] = taken[s]]
  /\ IF s \in registered
     THEN /\ announced' = [announced EXCEPT ![s] = @ + missed[s]]
          /\ missed' = [missed EXCEPT ![s] = 0]
     ELSE UNCHANGED gaps
  /\ UNCHANGED <<offered, accepted, taken, who>>

Join(s) ==
  /\ registered' = registered \union {s}
  /\ UNCHANGED <<offered, queues, gaps, left>>

Quit(s) ==
  /\ registered' = registered \ {s}
  /\ UNCHANGED <<offered, queues, gaps, left>>

Leave(s) ==
  /\ left' = left \union {s}
  /\ UNCHANGED <<offered, queues, gaps, registered>>

\* Filters and rows change at any moment, and with them what is wanted.
Next ==
  /\ wanted' \in [Subs -> SUBSET Seqs]
  /\ \/ UNCHANGED <<offered, queues, gaps, who>>
     \/ \E s \in Subs :
          \/ \E seq \in Seqs : \/ Offer(s, seq) \/ Accept(s, seq)
                              \/ Refuse(s, seq) \/ PassOver(s, seq)
          \/ Take(s) \/ Show(s)
          \/ Join(s) \/ Quit(s) \/ Leave(s)

Spec == Init /\ [][Next]_vars
=============================================================================
