---------------------------- MODULE MCFtpSession ----------------------------
(* An instance of FtpSession: a card with two directories, one inside the  *)
(* other, and a file; paths with single, double and trailing slashes, and  *)
(* with a colon.                                                           *)
EXTENDS FtpSession

MCDirectories == {<<"SD">>, <<"SD", "a">>, <<"SD", "a", "b">>}
MCFiles == {<<"SD", "a", "f">>}
MCArgs ==
  { <<"/">>, <<"/", "/">>, <<"/", "SD">>, <<"/", "SD", "/", "a", "/">>, <<"/", "/", "SD", "/", "/", "a">>,
    <<"/", "SD", ":", "a">>, <<>>, <<"SD">>, <<"a">>, <<"b">>, <<"f">>, <<"a", "/", "/", "b">> }
=============================================================================
