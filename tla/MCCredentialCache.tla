------------------------- MODULE MCCredentialCache -------------------------
(***************************************************************************)
(* Small instances of CredentialCache.                                     *)
(***************************************************************************)
EXTENDS CredentialCache

\* A native object and its scope.
OneNative == [p \in {"a"} |-> "wide"]
NoNative == [p \in {} |-> "wide"]
\* One object of a callback, below one prefix.
OnePath == [p \in {"x"} |-> {"wide"}]
\* Two objects of a callback, both below one prefix.
Siblings == [p \in {"x", "y"} |-> {"wide"}]
ScopeSize == [s \in {"wide"} |-> 1]
\* -1: no expiry; 0: expired on arrival; 1: expires while it is cached.
SomeLifetimes == {-1, 0, 1}
LongLived == {-1}
=============================================================================
