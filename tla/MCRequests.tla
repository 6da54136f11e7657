----------------------------- MODULE MCRequests -----------------------------
EXTENDS Requests
CONSTANTS main, compress
=============================================================================
