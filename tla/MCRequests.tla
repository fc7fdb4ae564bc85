----------------------------- MODULE MCRequests -----------------------------
(* An instance of Requests for TLC: names that are, look like, and are not  *)
(* this machine's.                                                          *)
EXTENDS Requests

MCLoopback ==
  {<<"localhost">>, <<"LOCALHOST">>, <<"127.0.0.1">>, <<"[", ":", ":", "1", "]">>}

MCNames ==
  MCLoopback \cup {<<"example">>, <<"localhost", ".example">>, <<"[", ":", ":", "2", "]">>}

MCPorts == {<< >>, <<":", "8001">>, <<":", "9999">>}
=============================================================================
