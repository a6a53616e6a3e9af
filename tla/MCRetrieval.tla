----------------------------- MODULE MCRetrieval -----------------------------
(* A request for a Profile with two components it is paired with, and others *)
(* that make a chunk of two and one of a single key.                         *)
EXTENDS Retrieval

TheRequest == <<"class", "bundle", "profile", "label", "object", "page">>
=============================================================================
