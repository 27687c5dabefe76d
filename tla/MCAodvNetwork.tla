--------------------------- MODULE MCAodvNetwork ----------------------------
EXTENDS AodvNetwork

CONSTANTS a, b, c
MCOrder == <<a, b, c>>
MCLine == {{a, b}, {b, c}}
MCRelay == {<<a, c, TRUE>>, <<b, c, FALSE>>}
MCGreeters == {c}
MCMaxId == [n \in {a, b, c} |-> IF n = a THEN 2 ELSE IF n = b THEN 1 ELSE 0]
=============================================================================
