--------------------------- MODULE MCFireboltApp ---------------------------
(* One module with two events, which its unsubscribe takes back in part;   *)
(* and a change of the platform's state for each case of the loop's switch *)
(* and one that has no AppState, to come in any order.                     *)
EXTENDS FireboltApp

MCMethods == <<[kind |-> "subscribe", events |-> {"e1", "e2"}],
               [kind |-> "unsubscribe", events |-> {"e1"}],
               [kind |-> "unsubscribeAll", events |-> {"e1", "e2"}],
               [kind |-> "call", events |-> {}]>>

MCChanges == {<<"INITIALIZING", "PAUSED">>, <<"PAUSED", "ACTIVE">>, <<"ACTIVE", "PAUSED">>,
              <<"PAUSED", "SUSPENDED">>, <<"ACTIVE", "TERMINATING">>,
              <<"ACTIVE", "SUSPENDED">>}
=============================================================================
