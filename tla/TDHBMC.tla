------------------------------- MODULE TDHBMC -------------------------------
(* Instances of TDHB for TLC.                                              *)
EXTENDS TDHB

\* Both, none, or only the client: a server that blocks has a client that does.
ServerWithClient == {{}, {"client"}, Peers}

\* Both are nonblocking.
Nonblocking == {{}}

\* What is read for a head may look like a negative number, or too long for the buffer.
Strays == {-1, 3}

\* A clock may be set back.
StepsBack == {0, 1}

\* No clock is set.
NoSteps == {0}
=============================================================================
