------------------------------ MODULE KeyCustody ------------------------------
(***************************************************************************)
(* What an agent that swallows key edges owes its user, whatever gates,      *)
(* recoveries and deadlines it uses: an edge the user typed stays in the      *)
(* agent's custody until it is passed on or deleted on purpose; none gets     *)
(* lost, none is passed on twice, and a deleted one never appears. Only what  *)
(* the user asks for again may be passed on a second time.                    *)
(***************************************************************************)
EXTENDS Naturals, Sequences, SequencesExt

VARIABLES
  typed,    \* how many edges the user typed; they are numbered in this order
  custody,  \* the edges the agent has
  passed,   \* the edges passed on, in order
  deleted,  \* the edges deleted on purpose
  again     \* edges the user asked for although they may have been passed on

vars == <<typed, custody, passed, deleted, again>>

Init == typed = 0 /\ custody = {} /\ passed = <<>> /\ deleted = {} /\ again = {}

(* The user types one edge at most; what leaves the agent's custody was passed on or
   deleted.                                                                          *)
Next ==
  /\ typed' \in {typed, typed + 1}
  /\ IsPrefix(passed, passed')
  /\ LET had == custody \cup ((typed + 1)..typed')
         new == SubSeq(passed', Len(passed) + 1, Len(passed'))
     IN  /\ IsInjective(new) /\ Range(new) \subseteq had \cup again
         /\ deleted \subseteq deleted' \cup Range(new) /\ deleted' \subseteq deleted \cup had
         /\ custody' = had \ (Range(new) \cup deleted')

Spec == Init /\ [][Next]_vars

===============================================================================
