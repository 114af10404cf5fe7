----------------------------- MODULE MCTerminal -----------------------------
EXTENDS SavedState

MCSizes == {[rows |-> 3, cols |-> 2, cell |-> 1], [rows |-> 3, cols |-> 2, cell |-> 2],
            [rows |-> 2, cols |-> 2, cell |-> 1], [rows |-> 1, cols |-> 3, cell |-> 1]}
MCFlags == {{}, {1}, {2}}
=============================================================================
