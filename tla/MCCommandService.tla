-------------------------- MODULE MCCommandService --------------------------
(***************************************************************************)
(* Instances of CommandService for TLC.                                    *)
(***************************************************************************)
EXTENDS CommandService, TLC

CONSTANTS r1, main, bad

\* An empty push, a single update, a push with a name that git would allow
\* and the forge refuses, and a push that names one reference twice.
MCBatches ==
  { <<>>, << <<r1, main>> >>, << <<r1, main>>, <<r1, bad>> >>, << <<r1, main>>, <<r1, main>> >> }

Symmetry == Permutations(Requests) \cup Permutations(Procs) \cup Permutations(Oids)
=============================================================================
