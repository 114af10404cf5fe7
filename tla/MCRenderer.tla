---------------------------- MODULE MCRenderer ----------------------------
EXTENDS Renderer

Cell(text, gfx) == [text |-> text, gfx |-> gfx]
MCCells == {Cell("", 0), Cell("a", 0), Cell("a", 1), Cell("w", 0), Cell("c", 1), Cell("s", 1)}
MCLabels == {[characters |-> <<"a", "w">>, gfx |-> 1]}
MCFeatureSets == {{}, {"sizing", "seamless"}, {"clustering"}}
MCSizes == {[rows |-> 1, cols |-> 4], [rows |-> 3, cols |-> 2]}
MCBounds == {[row |-> 0, col |-> 0, width |-> 2, height |-> 1],
             [row |-> 0, col |-> 3, width |-> 1, height |-> 1]}
Visible == [row |-> 0, col |-> 1, hidden |-> FALSE]
Outside == [row |-> 3, col |-> 0, hidden |-> FALSE]
MCFrames == {[cursor |-> Visible, title |-> "one"], [cursor |-> Visible, title |-> "two"],
             [cursor |-> Outside, title |-> "one"]}
=============================================================================
