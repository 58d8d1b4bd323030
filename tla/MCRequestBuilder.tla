-------------------------- MODULE MCRequestBuilder --------------------------
(* Two account IDs and nil, lists of up to three IDs, and backoff bounds   *)
(* from -250ms to 500ms against the defaults (units of 250ms).            *)
EXTENDS RequestBuilder

CONSTANTS v1, v2, nil

MCItems == {v1, v2, nil}
MCDurations == {-1, 0, 1, 2}
=============================================================================
