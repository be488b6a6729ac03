------------------------------ MODULE OnceLog -------------------------------
(***************************************************************************)
(* What a client of a group may rely on, whatever retries, deaths, races   *)
(* and lost answers the RPCs went through: a log that only grows, to which *)
(* a request adds one event at most, and calls that are told a position of *)
(* the log at most once, that of an event of their own request.            *)
(***************************************************************************)
EXTENDS Naturals, Sequences

CONSTANTS
  Calls,     \* calls of the clients
  Events,    \* what may be asked for: records with a kind and a request
  NoEvent,   \* a call that has not asked
  NoRequest  \* the request of an event its client does not mean to repeat

VARIABLES
  log,    \* the events of the group
  asked,  \* what each call asks for
  told    \* the position each call was told; 0 is none

vars == <<log, asked, told>>

Init ==
  /\ log = <<>>
  /\ asked = [c \in Calls |-> NoEvent]
  /\ told = [c \in Calls |-> 0]

SameRequest(e, f) == e.request # NoRequest /\ e.request = f.request /\ e.kind = f.kind

Ask(c) ==
  /\ asked[c] = NoEvent
  /\ \E e \in Events : asked' = [asked EXCEPT ![c] = e]
  /\ UNCHANGED <<log, told>>

\* The event is added, and its call told so, in one step.
Publish(c) ==
  /\ asked[c] # NoEvent /\ told[c] = 0
  /\ \A i \in 1..Len(log) : ~SameRequest(log[i], asked[c])
  /\ log' = Append(log, asked[c])
  /\ told' = [told EXCEPT ![c] = Len(log) + 1]
  /\ UNCHANGED asked

\* A repetition is told what its request came to.
Tell(c) ==
  /\ asked[c] # NoEvent /\ told[c] = 0
  /\ \E n \in 1..Len(log) : /\ SameRequest(log[n], asked[c])
                             /\ told' = [told EXCEPT ![c] = n]
  /\ UNCHANGED <<log, asked>>

Next == \E c \in Calls : Ask(c) \/ Publish(c) \/ Tell(c)

Spec == Init /\ [][Next]_vars
=============================================================================
