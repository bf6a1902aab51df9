------------------------------ MODULE MCEvents ------------------------------
EXTENDS Events

CONSTANTS usr1, winch, columns, exit_P, on_usr1, on_winch, also_usr1, after_P, also_after_P

Order == <<usr1, winch>>
Descs ==
  [h \in Handlers |-> IF h \in {on_usr1, also_usr1} THEN usr1
                      ELSE IF h = on_winch THEN winch ELSE exit_P]
=============================================================================
