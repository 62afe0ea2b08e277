---------------------------- MODULE MCNasSecurity ----------------------------
(* Model-checking instance of NasSecurity: the start COUNTs of the runs.   *)
EXTENDS NasSecurity

\* A session that has already sent 2^24 - 2 messages each way: the next two
\* wrap the SQN, the 16-bit overflow and the 24-bit COUNT at once.
MCCountNearWrap == 2^24 - 2

\* A session that has already sent 254 messages each way: the SQN wraps soon.
MCCountNearSqnWrap == 254

\* The start states of the runs: a fresh UEContext (ue.Init: COUNTs 0, no
\* security context), and long-running contexts near each wraparound.
MCFresh == [context |-> FALSE, count |-> 0]
MCStartFresh == {MCFresh}
MCStartsNearWrap ==
    { [context |-> TRUE, count |-> MCCountNearSqnWrap],
      [context |-> TRUE, count |-> MCCountNearWrap] }
=============================================================================
