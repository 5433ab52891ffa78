----------------------------- MODULE MemoryQueue -----------------------------
(* The in-process queue (internal/queue/memory): a list under a mutex, and a  *)
(* channel with room for one signal that wakes whoever waits. Several loops   *)
(* may receive at once, under one context.                                    *)
EXTENDS Naturals, Sequences

CONSTANTS Receivers, MaxDeliveries

ASSUME QueueAssumption == MaxDeliveries \in Nat \ {0}

VARIABLES
    messages,   \* what waits: the published thing and how often it was delivered
    signal,     \* the one slot of the channel
    closed,     \* Close was called: nothing is published any more
    loops,      \* per receiver: what it does and the message it holds
    cancelled,  \* the context all receivers share is over
    handled,    \* what was handled without an error
    dead        \* what ran out of deliveries

qvars == <<messages, signal, closed, loops, cancelled, handled, dead>>

Idle == [at |-> "loop", holds |-> <<>>]

QueueInit ==
    /\ messages = <<>>
    /\ signal = FALSE
    /\ closed = FALSE
    /\ loops = [r \in Receivers |-> Idle]
    /\ cancelled = FALSE
    /\ handled = {}
    /\ dead = {}

(* Mutant: only what is put back leaves a signal. *)
PutQuietly(d) == messages' = Append(messages, d) /\ signal' = (signal \/ d.deliveries > 0)

(* Append and leave a signal; one that is there already will do.              *)
Put(d) == messages' = Append(messages, d) /\ signal' = TRUE

Publish(thing) ==
    /\ ~closed
    /\ Put([what |-> thing, deliveries |-> 0])
    /\ UNCHANGED <<closed, loops, cancelled, handled, dead>>

(* One turn: stop, take the first message, or find nothing and wait.          *)
Turn(r) ==
    /\ loops[r].at = "loop"
    /\ IF cancelled
       THEN loops' = [loops EXCEPT ![r].at = "stopped"] /\ UNCHANGED messages
       ELSE IF messages = <<>>
       THEN loops' = [loops EXCEPT ![r].at = "waiting"] /\ UNCHANGED messages
       ELSE /\ messages' = Tail(messages)
            /\ loops' = [loops EXCEPT ![r] =
                   [at |-> "handling",
                    holds |-> <<[Head(messages) EXCEPT !.deliveries = @ + 1]>>]]
    /\ UNCHANGED <<signal, closed, cancelled, handled, dead>>

(* A waiting receiver takes the signal, or sees that its context is over.     *)
WakeUp(r) ==
    /\ loops[r].at = "waiting"
    /\ \/ /\ signal
          /\ signal' = FALSE
          /\ loops' = [loops EXCEPT ![r].at = "loop"]
       \/ /\ cancelled
          /\ loops' = [loops EXCEPT ![r].at = "stopped"]
          /\ UNCHANGED signal
    /\ UNCHANGED <<messages, closed, cancelled, handled, dead>>

Handled(r) ==
    /\ loops[r].at = "handling"
    /\ handled' = handled \union {loops[r].holds[1].what}
    /\ loops' = [loops EXCEPT ![r] = Idle]
    /\ UNCHANGED <<messages, signal, closed, cancelled, dead>>

(* The handler failed: back to the end of the list, or to the dead ones.      *)
Failed(r) ==
    /\ loops[r].at = "handling"
    /\ LET d == loops[r].holds[1]
       IN  IF d.deliveries >= MaxDeliveries
           THEN dead' = dead \union {d.what} /\ UNCHANGED <<messages, signal>>
           ELSE Put(d) /\ UNCHANGED dead
    /\ loops' = [loops EXCEPT ![r] = Idle]
    /\ UNCHANGED <<closed, cancelled, handled>>

Cancel ==
    /\ cancelled' = TRUE
    /\ UNCHANGED <<messages, signal, closed, loops, handled, dead>>

Close == closed' = TRUE /\ UNCHANGED <<messages, signal, loops, cancelled, handled, dead>>

Receive(r) == Turn(r) \/ WakeUp(r) \/ Handled(r) \/ Failed(r)

-----------------------------------------------------------------------------
(* Two messages may share a signal and two receivers may wait: still, nobody  *)
(* sleeps on a message that no signal and no busy receiver will get to.       *)
NobodySleepsOnWork ==
    messages # <<>> =>
        \/ signal
        \/ \E r \in Receivers : loops[r].at \in {"loop", "handling"}
        \/ cancelled
=============================================================================
