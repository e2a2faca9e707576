-------------------------------- MODULE MCFetch --------------------------------
(* The fetch scheduler for TLC: one file whose recording is on one release,  *)
(* which names that recording and another, and links to one Discogs release. *)
EXTENDS Fetch, TLC

CONSTANTS i1, r1, r2, rel, d1

OneMatch == i1 :> {r1}
Named == r1 :> {rel} @@ r2 :> {rel} @@ rel :> {r1, r2}
Links == r1 :> {} @@ r2 :> {} @@ rel :> {d1}

Everything == [api |-> TRUE, enrich |-> TRUE, discogs |-> TRUE]
Empty == [looked |-> {}, retry |-> {}, matches |-> {}, known |-> {}, cached |-> {}]

\* A first fetch; one whose lookup failed before, with no token; one after the
\* file was matched and the release's other recording cached.
Usual ==
  { [settings |-> Everything, db |-> Empty],
    [settings |-> [Everything EXCEPT !.discogs = FALSE], db |-> [Empty EXCEPT !.retry = {i1}]],
    [settings |-> Everything,
     db |-> [Empty EXCEPT !.looked = {i1}, !.matches = {r1}, !.known = {r1, r2},
                          !.cached = {r2}]] }

=============================================================================
