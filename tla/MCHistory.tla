----------------------------- MODULE MCHistory ------------------------------
EXTENDS History

MCSizes   == {<<1, 3>>, <<2, 2>>}
MCPrinted == {<<"133;A", "a", "133;B", "a", "\n", "133;C", "a", "W", "a", "\n", "133;D",
                "133;A", "a">>,
              <<"a", "133;A", "133;B", "\n", "133;C", "133;D">>,
              <<"a", "\n">>}
=============================================================================
