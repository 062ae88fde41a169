------------------------------ MODULE MCPubSub ------------------------------
(* Small instances of PubSub. *)
EXTENDS PubSub, TLC

CONSTANTS a, b, pattern, exact

\* A pattern over both channels.
MCPattern == {<<pattern, a>>, <<pattern, b>>}

\* A channel and a pattern that covers it: no run uses it, see README.md.
MCOverlap == {<<pattern, a>>, <<pattern, b>>, <<exact, a>>}

\* For MCPattern, where nothing tells the channels apart.
MCSymmetry == Permutations(Channel)
=============================================================================
