----------------------------- MODULE TradeStatus -----------------------------
(***************************************************************************)
(* The life of a trades row as docs/diagrams/execution-flows.md draws it:  *)
(* which status may follow which, and that filled, rejected and cancelled  *)
(* are final.  Two arrows the code has and the diagram leaves out are added: *)
(* queued -> submitted, the answer of a live broker (live.go:211), and     *)
(* submitted -> cancelled, the cancel endpoint (webhooks/handler.go:891).  *)
(* The components that write trades rows are checked against it.           *)
(***************************************************************************)

CONSTANT Trades

VARIABLE status

Follows == {<<"queued", "pending_confirmation">>, <<"queued", "submitted">>,
            <<"queued", "filled">>, <<"queued", "rejected">>,
            <<"queued", "cancelled">>,
            <<"pending_confirmation", "submitted">>,
            <<"pending_confirmation", "rejected">>,
            <<"pending_confirmation", "cancelled">>,
            <<"submitted", "filled">>, <<"submitted", "rejected">>,
            <<"submitted", "cancelled">>}

Init == status = [t \in Trades |-> "queued"]

Change(t, s) ==
    /\ <<status[t], s>> \in Follows
    /\ status' = [status EXCEPT ![t] = s]

Statuses == {"pending_confirmation", "submitted", "filled", "rejected", "cancelled"}

Next == \E t \in Trades, s \in Statuses : Change(t, s)

Spec == Init /\ [][Next]_status
=============================================================================
