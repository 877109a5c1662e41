----------------------------- MODULE AtLeastOnce -----------------------------
(***************************************************************************)
(* What "at-least-once delivery" promises, with no mechanism.  An item the  *)
(* system accepted is owed until its effect has happened and the debt has   *)
(* been settled.  The effect may be repeated while the item is owed (a       *)
(* repetition changes neither variable), and a debt is never dropped: the    *)
(* only way out of owed is through done.                                     *)
(*                                                                         *)
(* Outbox implements it with owed = rows of the outbox table and done =      *)
(* events on the stream; CompetingConsumers with owed = tasks the group has  *)
(* not acknowledged and done = tasks some handler completed.                 *)
(***************************************************************************)
CONSTANT Items

VARIABLES owed, done

vars == <<owed, done>>

Init == owed = {} /\ done = {}

Accept(i) ==
  /\ i \notin owed \cup done
  /\ owed' = owed \cup {i}
  /\ UNCHANGED done

Perform(i) ==
  /\ i \in owed
  /\ done' = done \cup {i}
  /\ UNCHANGED owed

Settle(i) ==
  /\ i \in owed \cap done
  /\ owed' = owed \ {i}
  /\ UNCHANGED done

Next == \E i \in Items : Accept(i) \/ Perform(i) \/ Settle(i)

Spec == Init /\ [][Next]_vars

Fairness == \A i \in Items : WF_vars(Perform(i)) /\ WF_vars(Settle(i))

FairSpec == Spec /\ Fairness
=============================================================================
