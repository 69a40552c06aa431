----------------------------- MODULE MCExecute -----------------------------
(***************************************************************************)
(* Instances of Execute for TLC.                                           *)
(***************************************************************************)
EXTENDS Execute, TLC

CONSTANTS h1, h2, a, b, d, e, p, c1, c2, c3, c4

\* a and b mount the same two slots; d, a's dependency, mounts one of them; p
\* produces.  c1 delegates to c2, which p produces; c3 is the host's, and c4
\* is its own source.
MCDeps == (a :> {d}) @@ (b :> {}) @@ (d :> {}) @@ (e :> {}) @@ (p :> {})
MCSlots == (a :> {1, 2}) @@ (b :> {1, 2}) @@ (d :> {1}) @@ (e :> {}) @@ (p :> {})
MCDemand == (a :> 1) @@ (b :> 2) @@ (d :> 1) @@ (e :> 1) @@ (p :> 1)
MCUses == (a :> <<c1>>) @@ (b :> <<c1>>) @@ (d :> <<>>) @@ (e :> <<c2, c4>>)
          @@ (p :> <<c3>>)
MCVia == (c1 :> c2) @@ (c2 :> p) @@ (c3 :> Host) @@ (c4 :> c4)

\* The first process rebuilds d under a riding read, the second builds it.
MCRuns == ({h1} \X {a, b, d, p}) \cup ({h2} \X {d, e, p})
MCAsked == ({h1} \X {a, b}) \cup ({h2} \X {d, e})
MCRebuilds == {<<h1, d>>}
=============================================================================
