------------------------- MODULE MCWorkspaceSeeding -------------------------
(* One or two seeders, one or two writers; a baseline, the same version    *)
(* edited, and a baseline of the next release, each with rows of both      *)
(* kinds (an INSERT of no rows at all would fail).                         *)
EXTENDS WorkspaceSeeding

CONSTANTS r1, r2, c1, c2

Unit(id, release) == [id |-> id, kind |-> "unit", release |-> release, edited |-> {}]

Incident(id) == [id |-> id, kind |-> "incident", release |-> NoRelease, edited |-> {}]

MCReleases == {r1, r2}

Baseline == [version |-> "v1", release |-> r1, catalog |-> c1,
             rows |-> {Unit("u1", r1), Incident("i1")}]

EditedBaseline == [version |-> "v1", release |-> r1, catalog |-> c2,
                   rows |-> {Unit("u1", r1), Incident("i2")}]

NextBaseline == [version |-> "v2", release |-> r2, catalog |-> c2,
                 rows |-> {Unit("u2", r2), Incident("i2")}]

MCManifests == {Baseline, EditedBaseline, NextBaseline}

MCHistory == {{}, {Baseline, NextBaseline}}

MCLegacyRows == {Unit("u0", r2), Incident("i0")}
=============================================================================
