-------------------------- MODULE MCAodvTimerQueue --------------------------
EXTENDS AodvTimerQueue

(* One unit stands for 500 ms, with the long intervals cut short.          *)
MCDelay == [REBOOT |-> {5}, PERIODIC |-> {2}, HELLO |-> {4},
            RREQ |-> {1, 3}, LR |-> {3}, ACTIVE_ROUTE |-> {5}]
=============================================================================
