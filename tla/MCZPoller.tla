----------------------------- MODULE MCZPoller -----------------------------
(* Instances of ZPoller for TLC.                                           *)
EXTENDS ZPoller

CONSTANTS s1, s2, POLLIN, POLLOUT

OneSocket == {s1}
TwoSockets == {s1, s2}
OneFd == {5}

In == {POLLIN}
InOut == {POLLIN, POLLOUT}
InMask == {{POLLIN}}
InOutMasks == {{POLLIN}, {POLLOUT}}

Simple == {}
Everything == AllUses
=============================================================================
