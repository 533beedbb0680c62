------------------------------ MODULE MCConfig ------------------------------
(***************************************************************************)
(* Four options, one of them with an alias; a bucket, a directory in it,   *)
(* and a second bucket whose name begins with that of the first.           *)
(***************************************************************************)
EXTENDS Config

MCTable == <<"KARU_MAX_ATTEMPTS", "AWS_NO_SIGN_REQUEST", "AWS_REGION", "AWS_DEFAULT_REGION">>

MCSpellings == Range(MCTable) \cup {"AWS_REGIONS"}

MCEnvironments ==
    {("AWS_DEFAULT_REGION" :> "env") @@ ("AWS_REGION" :> "1") @@ ("KARU_MAX_ATTEMPTS" :> "bad")}

MCValues == {"1", "bad"}

MCScopes == {<<"s3://", "b">>, <<"/vsis3/", "b">>, <<"/vsis3/", "b", "/", "d">>}

MCPaths ==
    {Empty, <<"/vsis3/", "b", "/", "d", "/", "k">>, <<"s3://", "b", "/", "k">>,
     <<"/vsis3/", "b", "b", "/", "k">>}
=============================================================================
