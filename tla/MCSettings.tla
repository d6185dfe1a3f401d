----------------------------- MODULE MCSettings -----------------------------
(* Two groups that have between them a field of every kind. *)
EXTENDS Settings

TwoGroups == <<"ips", "lss">>
OneGroup == <<"ips">>

\* An address that is not the one of zeroed memory; and two that differ in
\* the last octet alone.
FarAddress == {<<1, 1>>}
CloseAddresses == {<<1, 1>>, <<1, 2>>}
=============================================================================
