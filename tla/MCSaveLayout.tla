--------------------------- MODULE MCSaveLayout ---------------------------
EXTENDS SaveLayout

MCConfigs ==
    {[save |-> TRUE, restore |-> TRUE, name |-> "default"],
     [save |-> FALSE, restore |-> TRUE, name |-> "default"]}
MCNames == {"default", "work"}
MCAsked == {"work"}
MCDirectories == {"home", "src"}

\* Two sessions; the first has a tab whose pane is on full screen, and the second, which is active, a
\* tab whose first pane has been removed.
MCEarlier ==
    {[sessions |-> <<
        [id |-> 1, active |-> 1, tabs |-> <<
            [id |-> 1, panes |-> <<[id |-> 4, cwd |-> "src"]>>,
             recency |-> <<4>>, active |-> 4, full |-> 4]>>],
        [id |-> 2, active |-> 3, tabs |-> <<
            [id |-> 3, panes |-> <<[id |-> 5, cwd |-> "home"]>>,
             recency |-> <<5>>, active |-> 5, full |-> 0]>>]>>,
      active |-> 2]}
============================================================================
