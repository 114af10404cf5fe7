---------------------- MODULE MCSeamlessNavigation ----------------------
(* Small instances of SeamlessNavigation for TLC. *)
EXTENDS SeamlessNavigation

CONSTANTS a, b  \* panes

TwoPanes == <<a, b>>

Of(kind, dir) == [kind |-> kind, dir |-> dir]

\* What the outer terminal may send: a click, keys that are bound to a navigation with and without
\* a pane in its direction, and a key for the pane,
SomeInputs ==
    {Of("click", "right"), Of("bind", "right"), Of("bind", "down"), Of("text", "right")}

\* and navigations and notices of its own.
AllInputs == SomeInputs \cup {Of("outer", "right"), Of("enter", "right")}
=============================================================================
