----------------------------- MODULE MCSessions -----------------------------
(* Instances of GithubAuth for TLC.                                        *)
EXTENDS GithubAuth

CONSTANTS acme, ops

MCRWTeams == {<<acme, ops>>}
MCNone == {}
MCRWOrgs == {acme}
=============================================================================
