---------------------------- MODULE MCHttpServer ----------------------------
(* Requests with and without a body, and one of each kind the code rejects. *)
EXTENDS HttpServer

MCRequests ==
    {Encode(<<Header>>, <<>>),
     Encode(<<ContentLength(1), NoColon>>, <<Body>>),
     Encode(<<ContentLength(0)>>, <<>>),
     Encode(<<NoColon, Header>>, <<>>),
     Encode(<<BadLength, Header>>, <<>>),
     Encode(<<>>, <<>>)}
=============================================================================
