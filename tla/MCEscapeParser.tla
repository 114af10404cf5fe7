--------------------------- MODULE MCEscapeParser ---------------------------
EXTENDS EscapeParser

MCBytes == {"ESC", "BEL", "CAN", "DEL", "LF", "#", "1", ";", ":", "?",
            "[", "]", "\\", "P", "_", "X", "O", "m", "C2", "E0", "80", "A0"}
=============================================================================
