---------------------------- MODULE MCWorkbench ----------------------------
EXTENDS Workbench

MCAllowed == <<"tiny", "heavy", "application">>

\* all, a part, another order, nothing, a profile twice, and one that does not
\* exist.
MCRequests ==
  {MCAllowed, <<"heavy">>, <<"heavy", "tiny">>, <<>>, <<"tiny", "tiny">>, <<"huge">>}
=============================================================================
