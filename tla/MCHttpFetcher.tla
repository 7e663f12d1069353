---------------------------- MODULE MCHttpFetcher ----------------------------
(* One page in two versions, the second of them without a validator.        *)
EXTENDS HttpFetcher

CONSTANTS v1, v2

MCVersions == {v1, v2}
MCTagged   == {v1}
=============================================================================
