----------------------------- MODULE MCRequest -----------------------------
(* Request on a small instance: one provider is read, three are filled.    *)
EXTENDS Request, TLC

CONSTANTS users, u1, u2

MCAutoReturn  == users :> "block"
MCSource      == (u1 :> users) @@ (u2 :> users)
MCSourceLimit == users :> 2

MCSend    == <<"block", "block", "if_not_full">>
MCLimit   == <<1, 1, 1>>
MCRowSets == {<<"value", "error", "value">>}
=============================================================================
