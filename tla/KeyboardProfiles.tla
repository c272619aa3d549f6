---- MODULE KeyboardProfiles ----
(***************************************************************************)
(* Which keyboard profile each loaded layout is. Windows tells the name of a thread's current layout  *)
(* only, so a thread of the agent's own activates every loaded layout in turn, reads its name and     *)
(* goes back; the worker caches what comes of it under a generation, and converts only to a layout    *)
(* the cache still vouches for.                                                              *)
(*                                                                           *)
(* Layouts are numbers, the handles; a name stands for the exact profile. Ages count ticks.           *)
(***************************************************************************)
EXTENDS Naturals, FiniteSets

CONSTANTS
  None, Failed,
  Layouts,      \* handles that may be loaded
  Names,        \* names a layout may have
  Ime,          \* layouts Windows reports as input method editors
  MaxAge,       \* how long a snapshot, and a reply, stays usable
  MaxFlips,     \* bound: changes of the resolver thread's layout by the system
  MaxFailures,  \* bound: failing calls
  MaxChanges    \* bound: changes of the loaded layouts or of a layout's name

ProfilesAssumption == Layouts \subseteq Nat /\ Ime \subseteq Layouts /\ MaxAge \in Nat \ {0}

VARIABLES
  system,   \* the loaded layouts, their names, how long since one was renamed, and the bounds used up
  thread,   \* the layout of the resolver's thread
  run,      \* the resolution under way
  ask,      \* the worker's pending request: its age, whether the thread took it, the reply
  cache,    \* ProfileSnapshotCache, and how long until the next poll asks
  plan      \* a conversion the worker planned under a generation

pvars == <<system, thread, run, ask, cache, plan>>

(*                    resolve_keyboard_profiles                    *)
Spent(kind) == [system EXCEPT ![kind] = @ + 1]
Idle == None

(* The thread answers the request it took, if the worker still waits for it. *)
Answer(reply) ==
  /\ run' = Idle
  /\ ask' = IF ask # None /\ ask.taken THEN [ask EXCEPT !.reply = reply] ELSE ask

(* The error leaves through the guard's second attempt to go back when the layout was activated. *)
Fails ==
  IF run.at \in {"check", "confirm"} THEN Answer(Failed) /\ UNCHANGED thread
  ELSE Answer(Failed) /\ thread' \in {thread, run.original}

(* checked_layouts, and the layout to come back to. *)
Take ==
  /\ run = Idle /\ ask # None /\ ~ask.taken
  /\ IF system.loaded = {} \/ thread \notin system.loaded
     THEN ask' = [ask EXCEPT !.taken = TRUE, !.reply = Failed] /\ UNCHANGED run
     ELSE /\ ask' = [ask EXCEPT !.taken = TRUE]
          /\ run' = [at |-> "check", loaded |-> system.loaded, original |-> thread, todo |-> system.loaded \ Ime,
                     skip |-> TRUE, layout |-> None, name |-> None, bound |-> {}]
  /\ UNCHANGED <<system, thread, cache, plan>>

Bound(layout) == \E pair \in run.bound : pair.layout = layout

(* Layouts come in ascending order; a second pass skips nothing if the first left the current one out. *)
Check ==
  /\ run # Idle /\ run.at = "check"
  /\ IF run.todo = {}
     THEN /\ run' = IF run.skip /\ ~Bound(run.original)
                    THEN [run EXCEPT !.todo = @ \cup run.loaded, !.skip = FALSE, !.bound = {}]
                    ELSE [run EXCEPT !.at = "confirm"]
          /\ UNCHANGED ask
     ELSE IF thread # run.original THEN Answer(Failed)
     ELSE LET next == CHOOSE l \in run.todo : \A m \in run.todo : l <= m IN
          /\ run' = [run EXCEPT !.at = "activate", !.todo = @ \ {next}, !.layout = next, !.name = None]
          /\ UNCHANGED ask
  /\ UNCHANGED <<system, thread, cache, plan>>

(* Activating says which layout it replaced. *)
Activate ==
  /\ run # Idle /\ run.at = "activate"
  /\ thread' = run.layout
  /\ run' = [run EXCEPT !.at = IF thread = run.original THEN "name" ELSE "restore"]
  /\ UNCHANGED <<system, ask, cache, plan>>

(* The name belongs to the layout only if it was the thread's before and still is after the call. *)
Name ==
  /\ run # Idle /\ run.at = "name"
  /\ run' = IF thread = run.layout
            THEN [run EXCEPT !.at = "named", !.name = system.names[thread]]
            ELSE [run EXCEPT !.at = "restore"]
  /\ UNCHANGED <<system, thread, ask, cache, plan>>

(* Between the check of the activated layout and the reading of its name. *)
NameOfAnother ==
  /\ run # Idle /\ run.at = "name" /\ thread = run.layout /\ system.flips < MaxFlips
  /\ \E other \in system.loaded \ {thread} :
       /\ thread' = other
       /\ run' = [run EXCEPT !.at = "named", !.name = system.names[other]]
  /\ system' = Spent("flips")
  /\ UNCHANGED <<ask, cache, plan>>

(* Mutant: the layout is not looked at again after its name was read. *)
NamedAsRead ==
  /\ run # Idle /\ run.at = "named"
  /\ run' = [run EXCEPT !.at = "restore"]
  /\ UNCHANGED <<system, thread, ask, cache, plan>>
Named ==
  /\ run # Idle /\ run.at = "named"
  /\ run' = [run EXCEPT !.at = "restore", !.name = IF thread = run.layout THEN @ ELSE None]
  /\ UNCHANGED <<system, thread, ask, cache, plan>>

(* RestoreGuard: what is replaced must be what was current, and the original current again. *)
Restore ==
  /\ run # Idle /\ run.at = "restore"
  /\ IF run.name = None THEN Fails
     ELSE /\ thread' = run.original
          /\ run' = [run EXCEPT !.at = "check",
                                !.bound = @ \cup {[layout |-> run.layout, name |-> run.name]}]
          /\ UNCHANGED ask
  /\ UNCHANGED <<system, cache, plan>>

(* A call fails, or finds a layout the thread should not have at that point. *)
CallFails ==
  /\ run # Idle /\ system.failures < MaxFailures
  /\ Fails
  /\ system' = Spent("failures")
  /\ UNCHANGED <<cache, plan>>

Snapshot == [loaded |-> run.loaded, bound |-> run.bound]

Confirm ==
  /\ run # Idle /\ run.at = "confirm"
  /\ Answer(IF system.loaded = run.loaded /\ thread = run.original THEN Snapshot ELSE Failed)
  /\ UNCHANGED <<system, thread, cache, plan>>

(*                    ProfileSnapshotCache, KeyboardProfileCache                    *)
Current == IF cache.age # None /\ cache.age < MaxAge THEN cache.snapshot ELSE None

Expired(c) == IF Current # None THEN c ELSE [c EXCEPT !.age = None, !.snapshot = None]
Invalidated(c) ==
  [c EXCEPT !.age = None, !.snapshot = None,
            !.generation = IF c.snapshot = None THEN @ ELSE @ + 1]
Accepted(c, s) ==
  [c EXCEPT !.age = 0, !.snapshot = s, !.last = s,
            !.generation = IF c.last = s THEN @ ELSE @ + 1]

(* A query waits for nothing: it takes an answer that is there, drops one too old, or asks. *)
NewRequest == [age |-> 0, taken |-> FALSE, reply |-> None]
Poll ==
  /\ cache.due = 0 /\ cache.resolver
  /\ \/ /\ ask = None
        /\ ask' = NewRequest /\ cache' = Expired(cache) /\ UNCHANGED plan
     \/ /\ ask # None /\ ask.age >= MaxAge
        /\ ask' = None /\ cache' = Expired(cache) /\ UNCHANGED plan
     \/ /\ ask # None /\ ask.age < MaxAge /\ ask.reply = Failed
        /\ ask' = None /\ cache' = [Expired(cache) EXCEPT !.due = 1] /\ UNCHANGED plan
     \/ /\ ask # None /\ ask.age < MaxAge /\ ask.reply \notin {None, Failed}
        /\ ask' = None
        /\ cache' = [Accepted(cache, ask.reply) EXCEPT !.due = 1]
        /\ plan' = IF plan = None THEN None
                   ELSE [plan EXCEPT !.same = @ /\ ask.reply = cache.last]
     \/ /\ ask # None /\ ask.age < MaxAge /\ ask.reply = None
        /\ cache' = Expired(cache) /\ UNCHANGED <<ask, plan>>
  /\ UNCHANGED <<system, thread, run>>

(* The resolver's thread is gone: nothing the cache holds will be confirmed again. *)
Disconnected ==
  /\ cache.due = 0 /\ cache.resolver /\ system.failures < MaxFailures /\ run # Idle
  /\ ask' = None /\ run' = Idle
  /\ cache' = [Invalidated(cache) EXCEPT !.resolver = FALSE, !.due = 1]
  /\ system' = Spent("failures")
  /\ UNCHANGED <<thread, plan>>

PollWithout ==
  /\ ~cache.resolver /\ cache.due = 0
  /\ cache' = Expired(cache)
  /\ cache' # cache
  /\ UNCHANGED <<system, thread, run, ask, plan>>

(*                    the worker's conversions                    *)
Handles(s, name) == {pair.layout : pair \in {p \in s.bound : p.name = name}}

(* Two handles of one profile are ambiguous. *)
UniqueLayout(s, name) ==
  IF Cardinality(Handles(s, name)) = 1 THEN CHOOSE l \in Handles(s, name) : TRUE ELSE None

Plan(name) ==
  /\ plan = None /\ Current # None /\ UniqueLayout(Current, name) # None
  /\ plan' = [generation |-> cache.generation, name |-> name, layout |-> UniqueLayout(Current, name),
              same |-> TRUE]
  /\ UNCHANGED <<system, thread, run, ask, cache>>

Convertible ==
  /\ plan # None /\ plan.generation = cache.generation
  /\ Current # None /\ UniqueLayout(Current, plan.name) = plan.layout
  /\ system.loaded = Current.loaded
Convert ==
  /\ Convertible
  /\ plan' = None
  /\ UNCHANGED <<system, thread, run, ask, cache>>

(*                    the system                    *)
Flip ==
  /\ system.flips < MaxFlips
  /\ \E l \in system.loaded \ {thread} : thread' = l
  /\ system' = Spent("flips")
  /\ UNCHANGED <<run, ask, cache, plan>>

(* A handle is renamed only by unloading its layout and loading another under the same number; *)
(* that this happens inside one resolution is left out.                               *)
Changed == [system EXCEPT !.changes = @ + 1]
Change ==
  /\ system.changes < MaxChanges
  /\ \/ /\ run = Idle
        /\ \E l \in Layouts, n \in Names :
             /\ system.names[l] # n
             /\ system' = [Changed EXCEPT !.names[l] = n, !.renamed = 0]
     \/ /\ \E s \in SUBSET Layouts \ {{}, system.loaded} : system' = [Changed EXCEPT !.loaded = s]
  /\ UNCHANGED <<thread, run, ask, cache, plan>>

Older(age) == IF age = None \/ age = MaxAge THEN age ELSE age + 1
PTick ==
  /\ system' = [system EXCEPT !.renamed = IF @ = None \/ @ = 2 * MaxAge THEN None ELSE @ + 1]
  /\ ask' = IF ask = None THEN None ELSE [ask EXCEPT !.age = Older(@)]
  /\ cache' = [cache EXCEPT !.age = Older(@), !.due = IF @ = 0 THEN 0 ELSE @ - 1]
  /\ UNCHANGED <<thread, run, plan>>

PInit ==
  /\ \E names \in [Layouts -> Names] :
       system = [loaded |-> Layouts, names |-> names, renamed |-> None, flips |-> 0, failures |-> 0, changes |-> 0]
  /\ thread \in Layouts
  /\ run = Idle /\ ask = None /\ plan = None
  /\ cache = [snapshot |-> None, last |-> None, age |-> None, generation |-> 0, due |-> 0, resolver |-> TRUE]

PNext ==
  \/ Take \/ Check \/ Activate \/ Name \/ NameOfAnother \/ Named \/ Restore
  \/ CallFails \/ Confirm
  \/ Poll \/ Disconnected \/ PollWithout
  \/ \E name \in Names : Plan(name)
  \/ Convert
  \/ Flip \/ Change \/ PTick

(*                        Properties                        *)
(* A plan's generation is current exactly as long as every snapshot accepted since had the bindings it was *)
(* planned under: a layout list that changed makes it stale for good, also when it changes back or while   *)
(* no snapshot is usable, and refreshes that found nothing new leave it (ProfileSnapshotCache::accept).     *)
PlansStandWithBindings ==
  (plan # None /\ cache.resolver) => ((plan.generation = cache.generation) <=> plan.same)

(* A resolution that succeeds binds every layout to its own name and leaves the thread's layout as it was, *)
(* also when the system gave the thread another layout between two of its calls (collect_profiles), once a  *)
(* resolution at most: a second change back, around the reading of a name, is one no check can see.         *)
BindingsAreOwn ==
  [][(run # Idle /\ run.at = "confirm" /\ ask' # None /\ ask' # ask /\ ask'.reply \notin {None, Failed}) =>
       /\ \A pair \in run.bound : pair.name = system.names[pair.layout]
       /\ Bound(thread)]_pvars

(* A conversion switches to a layout that is the planned profile, the only one of it, or was both before a *)
(* change younger than a reply's and a snapshot's age together.                                    *)
TargetIsTheProfile ==
  [][plan # None /\ plan' = None =>
       \/ system.renamed # None
       \/ /\ system.names[plan.layout] = plan.name
          /\ \A l \in Layouts : (\E p \in cache.snapshot.bound : p.layout = l) /\ l # plan.layout
                                   => system.names[l] # plan.name]_pvars
====
