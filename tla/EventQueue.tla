----------------------------- MODULE EventQueue -----------------------------
(***************************************************************************)
(* What docs/plugin-events.md promises a plugin, and nothing about files,  *)
(* drains or failures: an event it subscribes to is kept for it until it   *)
(* has arrived, perhaps more than once, oldest first.  What it may lose is *)
(* the event that cannot be kept, the oldest when nothing handles it, and  *)
(* everything at once when there is too much or nothing handles any.       *)
(***************************************************************************)
EXTENDS Naturals

CONSTANTS Plugin, Subscribed

VARIABLES emitted, kept, arrived, dropped

queueVars == <<emitted, kept, arrived, dropped>>

Settled(p) == arrived[p] \cup dropped[p]
Oldest(p, e) == e \in kept[p] /\ \A d \in kept[p] : d < e => d \in Settled(p)

Init ==
  /\ emitted = 0 /\ kept = [p \in Plugin |-> {}]
  /\ arrived = [p \in Plugin |-> {}] /\ dropped = [p \in Plugin |-> {}]

\* The next event is kept for its subscribers, unless it, or all that was kept before it, is lost.
New(p) == {emitted + 1} \cap Subscribed[p]
Outcomes(p) == IF New(p) = {} THEN {kept[p]} ELSE {kept[p] \cup New(p), kept[p], New(p), {}}
Emit ==
  /\ emitted' = emitted + 1
  /\ kept' \in [Plugin -> SUBSET (1..emitted + 1)] /\ \A p \in Plugin : kept'[p] \in Outcomes(p)
  /\ dropped' = [p \in Plugin |-> dropped[p] \cup ((kept[p] \cup New(p)) \ kept'[p])]
  /\ UNCHANGED arrived

\* An event arrives when nothing older is outstanding; it may arrive again.
Arrive(p, e) ==
  /\ Oldest(p, e)
  /\ arrived' = [arrived EXCEPT ![p] = @ \cup {e}]
  /\ UNCHANGED <<emitted, kept, dropped>>

\* Nothing handles it.
PassOver(p, e) ==
  /\ Oldest(p, e)
  /\ dropped' = [dropped EXCEPT ![p] = @ \cup {e}]
  /\ UNCHANGED <<emitted, kept, arrived>>

\* Nothing handles any.
GiveUp(p) ==
  /\ dropped' = [dropped EXCEPT ![p] = @ \cup kept[p]]
  /\ kept' = [kept EXCEPT ![p] = {}]
  /\ UNCHANGED <<emitted, arrived>>

\* Only what is settled is forgotten.
Forget(p, gone) ==
  /\ gone \subseteq Settled(p)
  /\ kept' = [kept EXCEPT ![p] = @ \ gone]
  /\ UNCHANGED <<emitted, arrived, dropped>>

Next ==
  \/ Emit
  \/ \E p \in Plugin :
       \/ GiveUp(p)
       \/ \E e \in kept[p] : Arrive(p, e) \/ PassOver(p, e)
       \/ \E gone \in SUBSET kept[p] : Forget(p, gone)

SafeSpec == Init /\ [][Next]_queueVars
=============================================================================
