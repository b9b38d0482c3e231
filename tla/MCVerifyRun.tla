----------------------------- MODULE MCVerifyRun -----------------------------
EXTENDS VerifyRun, TLC

CONSTANTS r1, r2, stub, done, zoned

\* The mission as stamped, executed, and executed with a change in a forbidden zone.
MCContents == {stub, done, zoned}
MCRootsOf == stub :> 0 @@ done :> 1 @@ zoned :> 1
MCZoneOf == stub :> 0 @@ done :> 0 @@ zoned :> 1
MCPassing == {done, zoned} \X {FALSE, TRUE}
MCRuns == {r1, r2}
AnyRun == Permutations(MCRuns)
=============================================================================
