------------------------ MODULE MCPackagePublication ------------------------
(* An instance of PackagePublication for TLC.  A build gives the good archives, the *)
(* same but for their bytes, one that is not allowed, or one that cannot be used.   *)
EXTENDS PackagePublication

MCBytes == {"good", "other", "malformed", "unusable"}
MCMalformed == {"malformed"}
MCUnusable == {"unusable"}
MCBuilds == {<<"good", "good">>, <<"good", "other">>, <<"good", "malformed">>, <<"unusable", "good">>}
=============================================================================
