------------------------------- MODULE NavStack -------------------------------
(***************************************************************************)
(* What ActivityManager promises about screens, and nothing about tasks,   *)
(* locks or pending actions: there is a stack of screens whose last one is *)
(* in front; a screen opens above the front one, closes to the one below,  *)
(* or takes the place of all of them; when the last one closes, a home     *)
(* screen follows.                                                         *)
(***************************************************************************)
EXTENDS Naturals, Sequences

CONSTANTS Screens, HomeScreens

VARIABLE nav

Open == {nav[i] : i \in 1..Len(nav)}

Init == nav \in {<<s>> : s \in Screens}

Push(s)  == nav # <<>> /\ s \notin Open /\ nav' = Append(nav, s)
Close    == nav # <<>> /\ nav' = SubSeq(nav, 1, Len(nav) - 1)
Replace(s) == nav # <<>> /\ s \notin Open /\ nav' = <<s>>
Home(h)  == nav = <<>> /\ nav' = <<h>>

Next == \/ \E s \in Screens : Push(s) \/ Replace(s)
        \/ Close
        \/ \E h \in HomeScreens : Home(h)

SafeSpec == Init /\ [][Next]_nav
=============================================================================
