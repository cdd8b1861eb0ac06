----------------------------- MODULE MCAsyncCalls -----------------------------
EXTENDS AsyncCalls
=============================================================================
