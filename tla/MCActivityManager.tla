-------------------------- MODULE MCActivityManager --------------------------
\* A small device: one slot per kind of screen, two for those that can exist twice.
EXTENDS ActivityManager, TLC

CONSTANTS b, h1, h2, r, m1, m2, p, s, u

AllKinds == (b :> "boot" @@ h1 :> "home" @@ h2 :> "home" @@ r :> "reader" @@ m1 :> "menu"
             @@ m2 :> "menu" @@ p :> "panel" @@ s :> "sleep" @@ u :> "usb")
MCKindOf == [a \in Activities |-> AllKinds[a]]
=============================================================================
