---------------------------- MODULE ActorPromise ----------------------------
(***************************************************************************)
(* What an actor promises to whoever sends to it, without mailbox, strand  *)
(* or thread: a message that was accepted is handled exactly once, in the  *)
(* order of acceptance, and no message waits for ever.                     *)
(***************************************************************************)
EXTENDS Sequences

CONSTANTS Actors, Messages

VARIABLES pending,   \* accepted and not yet handled, oldest first
          handled    \* handled so far, oldest first

vars == <<pending, handled>>

Init ==
  /\ pending = [a \in Actors |-> <<>>]
  /\ handled = [a \in Actors |-> <<>>]

Accept(a, m) ==
  /\ pending' = [pending EXCEPT ![a] = Append(@, m)]
  /\ UNCHANGED handled

Deliver(a) ==
  /\ pending[a] # <<>>
  /\ handled' = [handled EXCEPT ![a] = Append(@, Head(pending[a]))]
  /\ pending' = [pending EXCEPT ![a] = Tail(@)]

Next == \E a \in Actors : Deliver(a) \/ \E m \in Messages : Accept(a, m)

SafeSpec == Init /\ [][Next]_vars

Spec == SafeSpec /\ \A a \in Actors : WF_vars(Deliver(a))
=============================================================================
