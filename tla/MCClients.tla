----------------------------- MODULE MCClients ------------------------------
(* The instances of Cancellation that its runs check.                      *)
EXTENDS Cancellation

CONSTANTS p1, p2
TwoPids == {p1, p2}

\* A build, aspect build --cancel, a build cancelled in each way, two jobs of
\* a runner; a signal may come in some.
OneBuild == {<<"build", "wait">>}
Cancelled == <<"build", "cancel", "wait">>
AllScripts == OneBuild \cup {
  Cancelled,
  <<"build", "cancel", "cancel_wait", "try_wait", "wait">>,
  <<"cancel", "cancel_wait", "build", "wait">>,
  <<"build", "cancel_manual", "cancel_wait_timeout", "force", "wait">>,
  <<"health", "build", "wait", "recover", "recover">>,
  <<"info", "shutdown", "health">>}
SomeInterrupted == OneBuild \cup {Cancelled}
NoneInterrupted == {}
NoFault == {"none"}
AnyFault == {"none", "theirs", "crash", "deaf", "locks", "probe", "late", "bind"}
=============================================================================
