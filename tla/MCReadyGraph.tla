---------------------------- MODULE MCReadyGraph ----------------------------
EXTENDS ReadyGraph

MCMembers == <<"cert.pem", "key.pem">>
MCFrameSizes == 1 .. 3
=============================================================================
