----------------------------- MODULE MCEndpoint -----------------------------
(* Endpoint with two clients: one edits, one appends clips. *)
EXTENDS Endpoint, TLC

CONSTANTS a, b, c, s1, s2

MCTyped == (s1 :> {c}) @@ (s2 :> {}) @@ (Remote :> {a, b})

MCClip == (a :> b) @@ (b :> c) @@ (c :> NoText)

=============================================================================
