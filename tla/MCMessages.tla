----------------------------- MODULE MCMessages -----------------------------
(* Instances of Messages for TLC: messages of up to two bytes, of which    *)
(* one fits into the zmq_msg_t.                                            *)
EXTENDS Messages, TLC

TwoStrings == {<<"a">>, <<"a", "b">>}
Private == AllUses \ {"shared"}
SharedBuffers == {"shared"}
AnyMessages == Permutations(Msgs)
=============================================================================
