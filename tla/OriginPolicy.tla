---------------------------- MODULE OriginPolicy ----------------------------
(***************************************************************************)
(* OriginPolicy::check (src/src/auth.rs): which upgrade requests pass, by  *)
(* the Origin headers they carry.                                          *)
(***************************************************************************)
EXTENDS Naturals, Sequences

CONSTANTS
    Sites,     \* what an origin names: scheme, host and port
    AnyOrigin  \* OriginPolicy::Any; a set of origins is an AllowList

\* A spelling of a site: letter case, trailing slashes, white space around.
Origins == [site : Sites, upper : BOOLEAN, slashed : BOOLEAN, padded : BOOLEAN]

\* A header value that is not visible ASCII: to_str() fails.
Unreadable == [site |-> "unreadable"]

\* normalize_origin
Normalize(o) == [o EXCEPT !.upper = FALSE, !.slashed = FALSE, !.padded = FALSE]

\* OriginPolicy::check of a request with the given Origin headers.  Mutant:
\* only the first one is looked at.
Allows(policy, origin) ==
    \/ policy = AnyOrigin
    \/ /\ policy # AnyOrigin /\ origin # Unreadable
       /\ \E a \in policy : Normalize(a) = Normalize(origin)
CheckFirst(policy, origins) == origins # <<>> => Allows(policy, Head(origins))
Check(policy, origins) ==
    origins # <<>> => Len(origins) = 1 /\ Allows(policy, Head(origins))
=============================================================================
